---------------------------- MODULE Spec2Model ----------------------------
(***************************************************************************)
(* A model of the transfer subsystem of my-sftp (package client):          *)
(*   - executeTasks, the bounded-concurrency transfer engine               *)
(*   - collectUploadTasks / collectDownloadTasks, the task collectors,     *)
(*     with the UploadDir / DownloadDir operations and the shell commands  *)
(*     put -r / get -r that call them                                      *)
(*   - List and the time-bounded listing cache                             *)
(* Each subsystem has its own specification over the shared variables;     *)
(* the variables of the other subsystems stay at their idle values.        *)
(***************************************************************************)
EXTENDS Integers, Sequences, FiniteSets, TLC

VARIABLES
    \* ---- executeTasks (src/client/upload.go 879-973)
    tasks,          \* []transferTask: the batch (also the collectors' output)
    optConcurrency, \* opts.Concurrency
    concurrency,    \* local `concurrency` (capacity of sem), 0 before it is computed
    pc,             \* position of the goroutine running executeTasks
    idx,            \* index of the `for _, task := range tasks` loop (1-based)
    sem,            \* number of tokens in the channel sem
    wg,             \* counter of the sync.WaitGroup
    mu,             \* holder of the mutex mu (0 = unlocked)
    errs,           \* the slice errs
    successCount,   \* the atomic counter successCount
    wpc,            \* position of the worker goroutine of each task
    outcome,        \* how the transfer of each task ended
    tmp,            \* the slice value each worker read for its append
    attempts,       \* number of Upload/DownloadWithProgress calls made for each task
    ret,            \* the values returned by executeTasks
    \* ---- task collection (upload.go 980-1066, 735-784; download.go 77-123)
    localFS,        \* local file system: set of nodes [path, kind]
    remoteFS,       \* remote file system: set of nodes [path, kind]
    colOp,          \* the operation that ran (UploadDir, DownloadDir, cmdPut, cmdGet)
                    \* or is running (UploadGlob, DownloadGlob); "none" before
    optMaxDepth,    \* opts.MaxDepth of that operation
    colErr,         \* TRUE when the operation returned an error
    \* ---- listing cache (src/client/client.go 975-1004)
    workDir,        \* c.workDir, the remote working directory
    now,            \* the clock, in seconds
    dirCache,       \* c.dirCache: path -> entry
    serverDir,      \* what the server's ReadDir answers for each path
    lpc,            \* position of each caller of List
    lpath,          \* targetPath of each caller
    lfiles,         \* files, err of each caller's ReadDir
    lret,           \* what each caller's last List returned, and from where
    \* ---- the session's other operations (client.go 921-932, 959-972, 1007-1074)
    localWorkDir,   \* c.localWorkDir, the local working directory
    mpc,            \* position of the goroutine that runs Chdir, Mkdir, Remove, Rename
    mop,            \* the operation it runs, or ran last
    mdirs,          \* the directories whose cache entry that operation invalidates
    mtodo,          \* those among them still to invalidate
    mtarget,        \* targetPath of Chdir / LocalChdir
    mstat,          \* what Stat(targetPath) answered
    merr,           \* TRUE when the operation returned an error
    dirty,          \* per directory: a mutation under it returned and no List of it was called since
    lnext,          \* per caller: its List is the first one called after such a mutation
    \* ---- path resolution (client.go 1118-1161)
    rpc,            \* how many times the path was resolved: "start", "once", "twice"
    rlocal,         \* TRUE for ResolveLocalPath, FALSE for ResolveRemotePath
    rwd,            \* c.workDir / c.localWorkDir, as a string
    rhome,          \* what sftpClient.Getwd() / os.UserHomeDir() reports
    rin,            \* the string p
    rout,           \* the results of the calls made so far
    \* ---- Remove of a tree (client.go 1007-1050), on remoteFS
    rmpc,           \* "start" before Remove is called, "done" when it returned
    rmTarget,       \* the resolved remotePath
    rmFailAt,       \* the server call that fails (connection, permission); 0: none
    rmBefore,       \* the remote file system when Remove was called
    rmLog,          \* the server calls Remove issued, in order, with their outcome
    rmErr,          \* TRUE when Remove returned an error
    \* ---- UploadGlob and DownloadGlob (upload.go 653-731, download.go 126-266)
    gpc,            \* "start", "collected" (executeTasks is running), "done"
    gop,            \* "UploadGlob" or "DownloadGlob"
    gpattern,       \* fullPattern, as the sequence of its segments
    grecursive,     \* opts.Recursive
    gmaxDepth,      \* opts.MaxDepth
    gmatches,       \* matches
    gtasks,         \* tasks
    gres,           \* how the call ended: the error it returned, or "ok"
    gcount,         \* the count it returned
    gfailed,        \* the tasks whose transfer returned an error
    \* ---- ListCompletion (client.go 1084-1115), on remoteFS and workDir
    cpc,            \* "start" before the call, "done" after it
    cwd,            \* c.workDir, as a string
    cprefix,        \* the prefix typed
    ccands,         \* the candidates returned
    \* ---- concurrent callers of ensureRemoteDir (upload.go 788-832), on remoteFS
    estack,         \* per caller: its calls of ensureRemoteDir, the innermost last
    eret,           \* per caller: "none", or what its outermost call returned
    ecalls,         \* the calls dirCreateGroup has run: [dir, done, err, mkdirs]
    eflight,        \* dirCreateGroup.m: per dir, the call in flight (0: none)
    ejoins,         \* the callers that waited for another caller's call
    eother,         \* TRUE once another client has made a directory
    \* ---- collectRemoteDirsForUpload (upload.go 1070-1099) on its own
    dtasks,         \* the task list it is given
    ddirs,          \* <<>> before the call, then <<the list returned>>
    \* ---- the path arguments of the SFTP calls of an operation
    ain,            \* the call: [op, p, wd, home, homeOk], p as the user gave it
    aargs,          \* <<>> before the call, then <<the set of path arguments>>
    \* ---- c.cacheMu (sync.RWMutex) and the goroutines that take it
    kop,            \* per goroutine: the operation it runs, "none" when it runs none
    kpc,            \* per goroutine: its position in the operation
    cacheMu,        \* [readers: the goroutines holding RLock, writer: the holder of Lock or 0]
    \* ---- the progress bars of one executeTasks call
    popts,          \* <<>> when idle, else [ShowProgress, Concurrency, n]: opts and len(tasks)
    ppc,            \* "idle", "entry", "loop", "wait", "returned"
    globalBar,      \* [created: bars made by NewOptions, added: calls of Add, finished]
    pwork,          \* per task: [state: "new" | "running" | "done", fileProgress: the flag passed]
    \* ---- single-file copies (UploadWithProgress, DownloadWithProgress)
    xop,            \* per goroutine: "none", "upload" or "download"
    xpc,            \* per goroutine: its position in the copy
    xerr,           \* per goroutine: the error of the copy, "nil" when it has none
    xdst,           \* per goroutine: its destination file, "absent" | "old" | "empty" | "written"
    xcreate,        \* per goroutine: TRUE once Create was called for the destination
    xbuf,           \* per goroutine: the buffer it has checked out, 0 when it has none
    bufferPool      \* the buffers that are checked in

engineVars == <<tasks, optConcurrency, concurrency, pc, idx, sem, wg, mu, errs,
                successCount, wpc, outcome, tmp, attempts, ret>>
collectVars == <<localFS, remoteFS, colOp, optMaxDepth, colErr>>
cacheVars == <<workDir, now, dirCache, serverDir, lpc, lpath, lfiles, lret>>
sessionVars == <<localWorkDir, mpc, mop, mdirs, mtodo, mtarget, mstat, merr, dirty, lnext>>
pathVars == <<rpc, rlocal, rwd, rhome, rin, rout>>
rmVars == <<rmpc, rmTarget, rmFailAt, rmBefore, rmLog, rmErr>>
globVars == <<gpc, gop, gpattern, grecursive, gmaxDepth, gmatches, gtasks, gres, gcount,
              gfailed>>
compVars == <<cpc, cwd, cprefix, ccands>>
ensureVars == <<estack, eret, ecalls, eflight, ejoins, eother>>
dirsVars == <<dtasks, ddirs>>
argVars == <<ain, aargs>>
lockVars == <<kop, kpc, cacheMu>>
progVars == <<popts, ppc, globalBar, pwork>>
copyVars == <<xop, xpc, xerr, xdst, xcreate, xbuf, bufferPool>>
unitVars == <<dirsVars, argVars, lockVars, progVars, copyVars>>
otherVars == <<pathVars, rmVars, globVars, compVars, ensureVars, unitVars>>
vars == <<engineVars, collectVars, cacheVars, sessionVars, otherVars>>

-----------------------------------------------------------------------------
(* Bounds of the model *)

MaxTasks == 3          \* longest batch handed to executeTasks
MaxConcurrency == 3    \* largest opts.Concurrency tried
MaxTreeDepth == 3      \* deepest level of an entry below the source root
MaxPathLen == 4        \* longest path string given to the resolvers
MaxPatLen == 2         \* most segments of a glob pattern
NumCallers == 1        \* goroutines calling List
NumEnsurers == 2       \* goroutines calling ensureRemoteDir
NumLockers == 2        \* goroutines taking c.cacheMu
NumCopiers == 2        \* goroutines running a single-file copy

(* Program constants *)

MaxConcurrentTransfers == 4
DirCacheTimeout == 30  \* seconds

Min(a, b) == IF a < b THEN a ELSE b

-----------------------------------------------------------------------------
(* File systems and paths                                                  *)
(* A path is the sequence of its segments (<<>> is "/"); a file system is  *)
(* a set of nodes [path, kind].  Kinds:                                    *)
(*   "file"   a regular file                                               *)
(*   "dir"    a directory                                                  *)
(*   "link"   a non-directory entry that is no regular file (a symlink, a  *)
(*            device ...): IsDir() is false for it                         *)
(*   "gone"   a local file whose DirEntry.Info() fails (removed after the  *)
(*            directory was read)                                          *)
(*   "noread" a directory whose ReadDir fails (permission denied)          *)

Names == <<"a", "b">>

\* Number of names used at each level of the generated trees.
WidthAt(level) == IF level = 1 THEN 2 ELSE 1

LocalRoot == <<"l">>
RemoteRoot == <<"r">>

Node(p, k) == [path |-> p, kind |-> k]

Exists(fs, p) == p = <<>> \/ \E n \in fs : n.path = p

KindOf(fs, p) ==
    IF p = <<>> THEN "dir" ELSE (CHOOSE n \in fs : n.path = p).kind

\* Stat(p) succeeded and IsDir()
IsDir(fs, p) == Exists(fs, p) /\ KindOf(fs, p) \in {"dir", "noread"}

\* path.Dir / filepath.Dir of a cleaned absolute path
Dir(p) == IF Len(p) = 0 THEN <<>> ELSE SubSeq(p, 1, Len(p) - 1)

JoinRemoteFlat(dir, name) == <<dir[1], name>>

\* path.Join(dir, entry.Name())
JoinRemote(dir, name) == Append(dir, name)

\* filepath.Join(dir, entry.Name())
JoinLocal(dir, name) == Append(dir, name)

IsPrefix(p, q) == Len(p) <= Len(q) /\ SubSeq(q, 1, Len(p)) = p

RECURSIVE EntriesFrom(_, _, _)
EntriesFrom(fs, dir, i) ==
    IF i > Len(Names) THEN <<>>
    ELSE LET p == Append(dir, Names[i])
         IN  (IF Exists(fs, p) THEN <<[name |-> Names[i], kind |-> KindOf(fs, p)]>>
              ELSE <<>>) \o EntriesFrom(fs, dir, i + 1)

\* os.ReadDir / sftpClient.ReadDir: the entries of dir, by name
ReadDir(fs, dir) == EntriesFrom(fs, dir, 1)

ReadDirFails(fs, dir) == ~Exists(fs, dir) \/ KindOf(fs, dir) # "dir"

\* os.MkdirAll(p): fails when p or an ancestor exists and is no directory
MkdirAllFails(fs, p) ==
    \E i \in 1..Len(p) : Exists(fs, SubSeq(p, 1, i)) /\ ~IsDir(fs, SubSeq(p, 1, i))

MkdirAllNothing(fs, p) == fs

MkdirAll(fs, p) ==
    fs \cup {Node(SubSeq(p, 1, i), "dir") : i \in {j \in 1..Len(p) : ~Exists(fs, SubSeq(p, 1, j))}}

(* The trees the source directory is drawn from *)

RECURSIVE TreesUnder(_, _, _)
RECURSIVE EntryTrees(_, _)
EntryTrees(p, level) ==
    {{}}
    \cup {{Node(p, k)} : k \in {"file", "link", "gone", "noread"}}
    \cup {{Node(p, "dir")} \cup s :
            s \in IF level < MaxTreeDepth
                  THEN TreesUnder(p, level + 1, WidthAt(level + 1))
                  ELSE {{}}}

TreesUnder(prefix, level, i) ==
    IF i = 0 THEN {{}}
    ELSE {x \cup y : x \in TreesUnder(prefix, level, i - 1),
                     y \in EntryTrees(Append(prefix, Names[i]), level)}

Trees(root) == {{Node(root, "dir")} \cup s : s \in TreesUnder(root, 1, WidthAt(1))}

-----------------------------------------------------------------------------
(* The task collectors                                                     *)

DepthExceededOffByOne(maxDepth, currentDepth) ==
    maxDepth >= 0 /\ currentDepth > maxDepth

\* upload.go 994 and 1041: a subdirectory is skipped
DepthExceeded(maxDepth, currentDepth) ==
    maxDepth >= 0 /\ currentDepth >= maxDepth

Failed == [err |-> TRUE, tasks |-> <<>>]

RECURSIVE collectUploadTasks(_, _, _, _, _)
RECURSIVE UploadEntries(_, _, _, _, _, _, _, _)

\* upload.go 1035-1065: the loop over the entries, from entry i on
UploadEntries(fs, entries, i, localDir, remoteDir, maxDepth, currentDepth, acc) ==
    IF i > Len(entries) THEN [err |-> FALSE, tasks |-> acc]
    ELSE
      LET entry == entries[i]
          localPath == JoinLocal(localDir, entry.name)
          remotePath == JoinRemote(remoteDir, entry.name)
          next(a) == UploadEntries(fs, entries, i + 1, localDir, remoteDir,
                                   maxDepth, currentDepth, a)
      IN  IF entry.kind \in {"dir", "noread"}
          THEN IF DepthExceeded(maxDepth, currentDepth)
               THEN next(acc)
               ELSE LET sub == collectUploadTasks(fs, localPath, remotePath,
                                                  maxDepth, currentDepth + 1)
                    IN  IF sub.err THEN Failed ELSE next(acc \o sub.tasks)
          ELSE IF entry.kind = "gone"
               THEN next(acc)
               ELSE next(Append(acc, [localPath  |-> localPath,
                                      remotePath |-> remotePath,
                                      isUpload   |-> TRUE]))

\* upload.go 1027-1066
collectUploadTasks(fs, localDir, remoteDir, maxDepth, currentDepth) ==
    IF ReadDirFails(fs, localDir) THEN Failed
    ELSE UploadEntries(fs, ReadDir(fs, localDir), 1, localDir, remoteDir,
                       maxDepth, currentDepth, <<>>)

RECURSIVE collectDownloadTasks(_, _, _, _, _, _)
RECURSIVE DownloadEntries(_, _, _, _, _, _, _, _, _)

\* upload.go 988-1017: the loop over the entries, from entry i on; lfs is the
\* local file system, which os.MkdirAll changes during the walk
DownloadEntries(fs, lfs, entries, i, remoteDir, localDir, maxDepth, currentDepth, acc) ==
    IF i > Len(entries) THEN [err |-> FALSE, tasks |-> acc, lfs |-> lfs]
    ELSE
      LET entry == entries[i]
          remotePath == JoinRemote(remoteDir, entry.name)
          localPath == JoinLocal(localDir, entry.name)
      IN  IF entry.kind \in {"dir", "noread"}
          THEN IF DepthExceeded(maxDepth, currentDepth)
               THEN DownloadEntries(fs, lfs, entries, i + 1, remoteDir, localDir,
                                    maxDepth, currentDepth, acc)
               ELSE IF MkdirAllFails(lfs, localPath)
               THEN [err |-> TRUE, tasks |-> <<>>, lfs |-> lfs]
               ELSE LET sub == collectDownloadTasks(fs, MkdirAll(lfs, localPath),
                                                    remotePath, localPath,
                                                    maxDepth, currentDepth + 1)
                    IN  IF sub.err THEN sub
                        ELSE DownloadEntries(fs, sub.lfs, entries, i + 1, remoteDir,
                                             localDir, maxDepth, currentDepth,
                                             acc \o sub.tasks)
          ELSE DownloadEntries(fs, lfs, entries, i + 1, remoteDir, localDir,
                               maxDepth, currentDepth,
                               Append(acc, [localPath  |-> localPath,
                                            remotePath |-> remotePath,
                                            isUpload   |-> FALSE]))

\* upload.go 980-1020
collectDownloadTasks(fs, lfs, remoteDir, localDir, maxDepth, currentDepth) ==
    IF ReadDirFails(fs, remoteDir) THEN [err |-> TRUE, tasks |-> <<>>, lfs |-> lfs]
    ELSE DownloadEntries(fs, lfs, ReadDir(fs, remoteDir), 1, remoteDir, localDir,
                         maxDepth, currentDepth, <<>>)


(* Remote directory creation, as one caller at a time sees it *)

\* The names of path segments in lexicographic order
AllNames == Names \o <<"l", "r">>

NameRank(n) == CHOOSE k \in 1..Len(AllNames) : AllNames[k] = n

RECURSIVE LexLess(_, _, _)
LexLess(p, q, i) ==
    IF i > Len(p) \/ i > Len(q) THEN Len(p) < Len(q)
    ELSE IF p[i] # q[i] THEN NameRank(p[i]) < NameRank(q[i])
         ELSE LexLess(p, q, i + 1)

DirLessDeepFirst(p, q) ==
    IF Len(p) # Len(q) THEN Len(p) > Len(q) ELSE LexLess(p, q, 1)

\* upload.go 1090-1097: the order of sort.Slice, by depth and then by string
DirLess(p, q) ==
    IF Len(p) # Len(q) THEN Len(p) < Len(q) ELSE LexLess(p, q, 1)

\* upload.go 1089-1097: sort.Slice(dirs, less); the entries are kept, each
\* as often as it occurs
RECURSIVE SortSlice(_)
SortSlice(dirs) ==
    IF dirs = <<>> THEN <<>>
    ELSE LET k == CHOOSE i \in 1..Len(dirs) :
                      \A j \in 1..Len(dirs) : ~DirLess(dirs[j], dirs[i])
         IN  <<dirs[k]>> \o SortSlice(SubSeq(dirs, 1, k - 1) \o SubSeq(dirs, k + 1, Len(dirs)))

DirChainSkipped(dirs, dir) == dirs

\* upload.go 1079-1085: for dir != "/" && dir != "." { add dir unless dirSet
\* has it; dir = path.Dir(dir) }.  The root "/" is the empty path.
RECURSIVE DirChain(_, _)
DirChain(dirs, dir) ==
    IF dir = <<>> THEN dirs
    ELSE DirChain(IF \E k \in 1..Len(dirs) : dirs[k] = dir THEN dirs
                  ELSE Append(dirs, dir),
                  Dir(dir))

\* upload.go 1074-1086: for _, task := range tasks
RECURSIVE RemoteDirsOf(_, _, _)
RemoteDirsOf(ts, i, dirs) ==
    IF i > Len(ts) THEN dirs
    ELSE RemoteDirsOf(ts, i + 1,
                      IF ~ts[i].isUpload THEN dirs
                      ELSE DirChain(dirs, Dir(ts[i].remotePath)))

\* upload.go 1070-1099
collectRemoteDirsForUpload(ts) == SortSlice(RemoteDirsOf(ts, 1, <<>>))

\* sftpClient.Mkdir(p) fails when p exists or its parent is no directory
MkdirFails(fs, p) == Exists(fs, p) \/ ~IsDir(fs, Dir(p))

\* upload.go 788-832, for a single caller: Stat, the parent first, Mkdir, and
\* the Stat again when Mkdir failed
RECURSIVE ensureRemoteDir(_, _)
ensureRemoteDir(fs, dir) ==
    IF IsDir(fs, dir) THEN [err |-> FALSE, fs |-> fs]
    ELSE LET parent == Dir(dir)
             up == IF parent # <<>> THEN ensureRemoteDir(fs, parent)
                   ELSE [err |-> FALSE, fs |-> fs]
         IN  IF up.err THEN up
             ELSE IF MkdirFails(up.fs, dir)
                  THEN [err |-> ~IsDir(up.fs, dir), fs |-> up.fs]
                  ELSE [err |-> FALSE, fs |-> up.fs \cup {Node(dir, "dir")}]

\* upload.go 1103-1110
RECURSIVE ensureRemoteDirsExist(_, _, _)
ensureRemoteDirsExist(fs, dirs, i) ==
    IF i > Len(dirs) THEN [err |-> FALSE, fs |-> fs]
    ELSE LET r == ensureRemoteDir(fs, dirs[i])
         IN  IF r.err THEN r ELSE ensureRemoteDirsExist(r.fs, dirs, i + 1)


(* UploadDir, DownloadDir and the shell commands that call them            *)

engineRest == <<concurrency, pc, idx, sem, wg, mu, errs, successCount, wpc,
                outcome, tmp, attempts, ret>>

\* upload.go 736-742 / download.go 78-84 with the depth the caller asks for
ApiOptions(maxDepth) ==
    [Recursive |-> TRUE, ShowProgress |-> TRUE,
     Concurrency |-> MaxConcurrentTransfers, MaxDepth |-> maxDepth]

\* shell.go 429-432 and 347-350: the literal names Recursive and ShowProgress;
\* Concurrency and MaxDepth are left at Go's zero value
ShellOptions ==
    [Recursive |-> TRUE, ShowProgress |-> TRUE, Concurrency |-> 0, MaxDepth |-> 0]

\* The operation returns an error before executeTasks is called.
Fails(op, opts) ==
    /\ colOp' = op
    /\ colErr' = TRUE
    /\ tasks' = <<>>
    /\ optMaxDepth' = opts.MaxDepth
    /\ optConcurrency' = opts.Concurrency

\* The operation hands the batch ts to executeTasks (or returns 0, nil without
\* calling it when DownloadDir found nothing).
HandsOver(op, opts, ts) ==
    /\ colOp' = op
    /\ colErr' = FALSE
    /\ tasks' = ts
    /\ optMaxDepth' = opts.MaxDepth
    /\ optConcurrency' = opts.Concurrency

DirsFailedIgnored(e) == FALSE

\* upload.go 719 and 772: if err := c.ensureRemoteDirsExist(dirs); err != nil
DirsFailed(e) == e.err

\* upload.go 735-784, up to the call of executeTasks.  The listing cache is
\* empty here, so the invalidateDirCache of ensureRemoteDir changes nothing.
UploadDirOp(op, localDir, remoteDir, opts) ==
    /\ UNCHANGED localFS
    /\ IF ~IsDir(localFS, localDir)
       THEN Fails(op, opts) /\ UNCHANGED remoteFS
       ELSE LET c == collectUploadTasks(localFS, localDir, remoteDir, opts.MaxDepth, 0)
            IN  IF c.err \/ Len(c.tasks) = 0
                THEN Fails(op, opts) /\ UNCHANGED remoteFS
                ELSE LET dirs == <<remoteDir>> \o collectRemoteDirsForUpload(c.tasks)
                         e == ensureRemoteDirsExist(remoteFS, dirs, 1)
                     IN  /\ remoteFS' = e.fs
                         /\ IF DirsFailed(e) THEN Fails(op, opts)
                            ELSE HandsOver(op, opts, c.tasks)

\* download.go 77-123, up to the call of executeTasks
DownloadDirOp(op, remoteDir, localDir, opts) ==
    /\ UNCHANGED remoteFS
    /\ IF ~IsDir(remoteFS, remoteDir) \/ MkdirAllFails(localFS, localDir)
       THEN Fails(op, opts) /\ UNCHANGED localFS
       ELSE LET c == collectDownloadTasks(remoteFS, MkdirAll(localFS, localDir),
                                          remoteDir, localDir, opts.MaxDepth, 0)
            IN  /\ localFS' = c.lfs
                /\ IF c.err THEN Fails(op, opts)
                   ELSE HandsOver(op, opts, c.tasks)

UploadDir ==
    /\ colOp = "none"
    /\ \E d \in -1..MaxTreeDepth :
          UploadDirOp("UploadDir", LocalRoot, RemoteRoot, ApiOptions(d))
    /\ UNCHANGED <<engineRest, cacheVars, sessionVars, otherVars>>

DownloadDir ==
    /\ colOp = "none"
    /\ \E d \in -1..MaxTreeDepth :
          DownloadDirOp("DownloadDir", RemoteRoot, LocalRoot, ApiOptions(d))
    /\ UNCHANGED <<engineRest, cacheVars, sessionVars, otherVars>>

\* shell.go 375-439: put [-r] <local directory> <remote path>
cmdPut ==
    /\ colOp = "none"
    /\ \E recursive \in BOOLEAN :
          IF ~Exists(localFS, LocalRoot)
          THEN Fails("put", ShellOptions) /\ UNCHANGED <<localFS, remoteFS>>
          ELSE IF ~recursive
          THEN Fails("put", ShellOptions) /\ UNCHANGED <<localFS, remoteFS>>
          ELSE UploadDirOp("put -r", LocalRoot, RemoteRoot, ShellOptions)
    /\ UNCHANGED <<engineRest, cacheVars, sessionVars, otherVars>>

\* shell.go 311-357: get [-r] <remote directory> <local path>
cmdGet ==
    /\ colOp = "none"
    /\ \E recursive \in BOOLEAN :
          IF ~Exists(remoteFS, RemoteRoot)
          THEN Fails("get", ShellOptions) /\ UNCHANGED <<localFS, remoteFS>>
          ELSE IF ~recursive
          THEN Fails("get", ShellOptions) /\ UNCHANGED <<localFS, remoteFS>>
          ELSE DownloadDirOp("get -r", RemoteRoot, LocalRoot, ShellOptions)
    /\ UNCHANGED <<engineRest, cacheVars, sessionVars, otherVars>>

CollectIdle ==
    /\ localFS = {}
    /\ remoteFS = {}
    /\ colOp = "none"
    /\ optMaxDepth = 0
    /\ colErr = FALSE

\* The source tree is local (with an empty remote side, or one where a file
\* is in the way of a directory to create) or remote (likewise).
CollectInit ==
    /\ \/ /\ localFS \in Trees(LocalRoot)
          /\ remoteFS \in {{}, {Node(RemoteRoot, "dir"),
                                Node(Append(RemoteRoot, Names[1]), "file")}}
       \/ /\ remoteFS \in {t \in Trees(RemoteRoot) : \A n \in t : n.kind # "gone"}
          /\ localFS \in {{}, {Node(LocalRoot, "dir"),
                               Node(Append(LocalRoot, Names[1]), "file")}}
    /\ colOp = "none"
    /\ optMaxDepth = 0
    /\ colErr = FALSE
    /\ tasks = <<>>

CollectNext ==
    \/ UploadDir
    \/ DownloadDir
    \/ cmdPut
    \/ cmdGet

-----------------------------------------------------------------------------
(* The listing cache and List                                              *)

Callers == 1..NumCallers

\* The remote directories of this part: "/" and "/d".
CachePaths == {<<>>, <<"d">>}

\* What sftpClient.Getwd() reports: the directory the session starts in.
Home == <<"d">>

\* The strings callers pass to List.
ListArgs == {"", "~", "/", "/d", ".", ".."}

\* The segments of a path string, split at "/".
Segments(p) ==
    CASE p = "/"  -> <<>>
      [] p = "/d" -> <<"d">>
      [] p = "."  -> <<".">>
      [] p = ".." -> <<"..">>
      [] OTHER    -> <<p>>

\* path.IsAbs
IsAbs(p) == p \in {"/", "/d"}

\* path.Clean of a rooted path: "." is dropped, ".." drops the segment
\* before it and is dropped itself at the root
RECURSIVE CleanFrom(_, _, _)
CleanFrom(segs, i, out) ==
    IF i > Len(segs) THEN out
    ELSE IF segs[i] = "." THEN CleanFrom(segs, i + 1, out)
    ELSE IF segs[i] = ".." THEN CleanFrom(segs, i + 1, Dir(out))
    ELSE CleanFrom(segs, i + 1, Append(out, segs[i]))

Clean(segs) == CleanFrom(segs, 1, <<>>)

\* client.go 1118-1138; getwdOk: sftpClient.Getwd() returned no error
ResolveRemotePath(p, getwdOk) ==
    IF p = "" THEN workDir
    ELSE IF p = "~" THEN (IF getwdOk THEN Home ELSE workDir)
    ELSE IF IsAbs(p) THEN Clean(Segments(p))
    ELSE Clean(workDir \o Segments(p))

NoEntry == [present |-> FALSE, files |-> 0, cachedAt |-> 0]

\* The instants at which something happens: the clock jumps from one to a
\* later one, so that entries get 1, 29, 30, 31 and more seconds old.
Instants == {0, 1, DirCacheTimeout, DirCacheTimeout + 1}

\* The listings a remote directory can have (what ReadDir returns).
Listings == {0, 1}

NoReturnYet == [from |-> "none", files |-> 0]

CacheIdle ==
    /\ workDir = <<>>
    /\ now = 0
    /\ dirCache = [d \in CachePaths |-> NoEntry]
    /\ serverDir = [d \in CachePaths |-> 0]
    /\ lpc = [c \in Callers |-> "idle"]
    /\ lpath = [c \in Callers |-> <<>>]
    /\ lfiles = [c \in Callers |-> 0]
    /\ lret = [c \in Callers |-> NoReturnYet]

CacheInit ==
    /\ workDir \in CachePaths
    /\ now = 0
    /\ dirCache = [d \in CachePaths |-> NoEntry]
    /\ serverDir = [d \in CachePaths |-> 0]
    /\ lpc = [c \in Callers |-> "idle"]
    /\ lpath = [c \in Callers |-> <<>>]
    /\ lfiles = [c \in Callers |-> 0]
    /\ lret = [c \in Callers |-> NoReturnYet]

\* client.go 975-976: List(dir) is called; targetPath is the resolved path
ListCall(c) ==
    /\ lpc[c] = "idle"
    /\ \E dir \in ListArgs, getwdOk \in BOOLEAN :
          lpath' = [lpath EXCEPT ![c] = ResolveRemotePath(dir, getwdOk)]
    /\ lpc' = [lpc EXCEPT ![c] = "lookup"]
    /\ lret' = [lret EXCEPT ![c] = NoReturnYet]
    /\ lnext' = [lnext EXCEPT ![c] = dirty[lpath'[c]]]
    /\ dirty' = [dirty EXCEPT ![lpath'[c]] = FALSE]
    /\ UNCHANGED <<workDir, now, dirCache, serverDir, lfiles>>
    /\ UNCHANGED <<localWorkDir, mpc, mop, mdirs, mtodo, mtarget, mstat, merr>>
    /\ UNCHANGED <<engineVars, collectVars, otherVars>>

FreshInclusive(entry, t) == entry.present /\ t - entry.cachedAt <= DirCacheTimeout

\* client.go 980-982: exists && time.Since(entry.cachedAt) < DirCacheTimeout
Fresh(entry, t) == entry.present /\ t - entry.cachedAt < DirCacheTimeout

\* client.go 979-987: the lookup under the read lock; a fresh entry is returned
ListLookup(c) ==
    /\ lpc[c] = "lookup"
    /\ IF Fresh(dirCache[lpath[c]], now)
       THEN /\ lret' = [lret EXCEPT ![c] = [from |-> "cache",
                                            files |-> dirCache[lpath[c]].files]]
            /\ lpc' = [lpc EXCEPT ![c] = "idle"]
       ELSE /\ lpc' = [lpc EXCEPT ![c] = "readdir"]
            /\ UNCHANGED lret
    /\ UNCHANGED <<workDir, now, dirCache, serverDir, lpath, lfiles>>
    /\ UNCHANGED <<engineVars, collectVars, sessionVars, otherVars>>

DroppedOnError(cache, path) == [cache EXCEPT ![path] = NoEntry]

\* client.go 991-993: if err != nil { return nil, err }: the map is not touched
KeptOnError(cache, path) == cache

\* client.go 990-993: sftpClient.ReadDir(targetPath) answers or fails
ListReadDir(c) ==
    /\ lpc[c] = "readdir"
    /\ \/ /\ lfiles' = [lfiles EXCEPT ![c] = serverDir[lpath[c]]]
          /\ lpc' = [lpc EXCEPT ![c] = "store"]
          /\ UNCHANGED <<lret, dirCache>>
       \/ /\ lret' = [lret EXCEPT ![c] = [from |-> "error", files |-> 0]]
          /\ lpc' = [lpc EXCEPT ![c] = "idle"]
          /\ dirCache' = KeptOnError(dirCache, lpath[c])
          /\ UNCHANGED lfiles
    /\ UNCHANGED <<workDir, now, serverDir, lpath>>
    /\ UNCHANGED <<engineVars, collectVars, sessionVars, otherVars>>

\* client.go 996-1003: the entry is replaced under the write lock, and the
\* listing is returned
ListStore(c) ==
    /\ lpc[c] = "store"
    /\ dirCache' = [dirCache EXCEPT ![lpath[c]] =
                       [present |-> TRUE, files |-> lfiles[c], cachedAt |-> now]]
    /\ lret' = [lret EXCEPT ![c] = [from |-> "server", files |-> lfiles[c]]]
    /\ lpc' = [lpc EXCEPT ![c] = "idle"]
    /\ lfiles' = [lfiles EXCEPT ![c] = 0]
    /\ UNCHANGED <<workDir, now, serverDir, lpath>>
    /\ UNCHANGED <<engineVars, collectVars, sessionVars, otherVars>>

\* Time passes.
Tick ==
    /\ \E t \in Instants :
          /\ t > now
          /\ now' = t
    /\ UNCHANGED <<workDir, dirCache, serverDir, lpc, lpath, lfiles, lret>>
    /\ UNCHANGED <<engineVars, collectVars, sessionVars, otherVars>>

\* Somebody else changes the content of a remote directory.
ServerChange ==
    /\ \E d \in CachePaths, l \in Listings :
          /\ serverDir[d] # l
          /\ serverDir' = [serverDir EXCEPT ![d] = l]
    /\ UNCHANGED <<workDir, now, dirCache, lpc, lpath, lfiles, lret>>
    /\ UNCHANGED <<engineVars, collectVars, sessionVars, otherVars>>

List(c) ==
    \/ ListCall(c)
    \/ ListLookup(c)
    \/ ListReadDir(c)
    \/ ListStore(c)

CacheNext ==
    \/ \E c \in Callers : List(c)
    \/ Tick
    \/ ServerChange

-----------------------------------------------------------------------------
(* Chdir, LocalChdir, Mkdir, Remove, Rename and the cache entries they drop *)
(* One goroutine runs these operations, one after the other, next to the    *)
(* callers of List.  The listing of a directory is 1 when the entry the     *)
(* operations create, remove and move is in it, and 0 when it is not.       *)

\* What os.UserHomeDir() reports.
LocalHome == <<"d">>

\* client.go 1141-1161; homeOk: os.UserHomeDir() returned no error
ResolveLocalPath(p, homeOk) ==
    IF p = "" THEN localWorkDir
    ELSE IF p = "~" THEN (IF homeOk THEN LocalHome ELSE localWorkDir)
    ELSE IF IsAbs(p) THEN Clean(Segments(p))
    ELSE Clean(localWorkDir \o Segments(p))

\* What Stat answers for the target of Chdir / LocalChdir.
StatAnswers == {"dir", "file", "err"}

EmptyCache == [d \in CachePaths |-> NoEntry]

SessionIdle ==
    /\ localWorkDir = <<>>
    /\ mpc = "idle"
    /\ mop = "none"
    /\ mdirs = <<>>
    /\ mtodo = <<>>
    /\ mtarget = <<>>
    /\ mstat = "none"
    /\ merr = FALSE
    /\ dirty = [d \in CachePaths |-> FALSE]
    /\ lnext = [c \in Callers |-> FALSE]

\* The operation op is called; nothing of the last one is left.
Called(op) ==
    /\ mpc = "idle"
    /\ mop' = op

\* The operation returns an error: nothing is invalidated.
ReturnsError ==
    /\ mpc' = "idle"
    /\ merr' = TRUE
    /\ mdirs' = <<>>
    /\ mtodo' = <<>>

\* The server call succeeded: the parents ds are invalidated next.
Invalidates(ds) ==
    /\ mpc' = "invalidate"
    /\ merr' = FALSE
    /\ mdirs' = ds
    /\ mtodo' = ds

\* client.go 1053-1061, up to the sftp call: Mkdir of an entry under d
Mkdir ==
    /\ Called("Mkdir")
    /\ \E d \in CachePaths :
          \/ /\ serverDir[d] = 0
             /\ serverDir' = [serverDir EXCEPT ![d] = 1]
             /\ Invalidates(<<d>>)
          \/ /\ ReturnsError
             /\ UNCHANGED serverDir
    /\ mtarget' = <<>>
    /\ mstat' = "none"
    /\ UNCHANGED <<workDir, now, dirCache, lpc, lpath, lfiles, lret>>
    /\ UNCHANGED <<localWorkDir, dirty, lnext>>
    /\ UNCHANGED <<engineVars, collectVars, otherVars>>

\* client.go 1007-1027, up to the end of the deletion: Remove of an entry
\* under d
Remove ==
    /\ Called("Remove")
    /\ \E d \in CachePaths :
          \/ /\ serverDir[d] = 1
             /\ serverDir' = [serverDir EXCEPT ![d] = 0]
             /\ Invalidates(<<d>>)
          \/ /\ ReturnsError
             /\ UNCHANGED serverDir
    /\ mtarget' = <<>>
    /\ mstat' = "none"
    /\ UNCHANGED <<workDir, now, dirCache, lpc, lpath, lfiles, lret>>
    /\ UNCHANGED <<localWorkDir, dirty, lnext>>
    /\ UNCHANGED <<engineVars, collectVars, otherVars>>

\* client.go 1064-1074, up to the sftp call: Rename of an entry under d1
\* to an entry under d2
Rename ==
    /\ Called("Rename")
    /\ \E d1 \in CachePaths, d2 \in CachePaths :
          \/ /\ d1 # d2
             /\ serverDir[d1] = 1 /\ serverDir[d2] = 0
             /\ serverDir' = [serverDir EXCEPT ![d1] = 0, ![d2] = 1]
             /\ Invalidates(<<d1, d2>>)
          \/ /\ ReturnsError
             /\ UNCHANGED serverDir
    /\ mtarget' = <<>>
    /\ mstat' = "none"
    /\ UNCHANGED <<workDir, now, dirCache, lpc, lpath, lfiles, lret>>
    /\ UNCHANGED <<localWorkDir, dirty, lnext>>
    /\ UNCHANGED <<engineVars, collectVars, otherVars>>

UploadCacheDropped(cache, d) == [cache EXCEPT ![d] = NoEntry]

\* upload.go 598-642: UploadWithProgress takes no lock of the cache and calls
\* neither invalidateDirCache nor ClearDirCache
UploadCache(cache, d) == cache

\* upload.go 593-642: Upload of a file into d.  Create makes or truncates the
\* remote file, or fails; the copy after it ends with or without an error.
Upload ==
    /\ Called("Upload")
    /\ \E d \in CachePaths, created \in BOOLEAN, copied \in BOOLEAN :
          /\ serverDir' = IF created THEN [serverDir EXCEPT ![d] = 1] ELSE serverDir
          /\ merr' = ~(created /\ copied)
          /\ dirCache' = UploadCache(dirCache, d)
    /\ mpc' = "idle"
    /\ mdirs' = <<>>
    /\ mtodo' = <<>>
    /\ mtarget' = <<>>
    /\ mstat' = "none"
    /\ UNCHANGED <<workDir, now, lpc, lpath, lfiles, lret>>
    /\ UNCHANGED <<localWorkDir, dirty, lnext>>
    /\ UNCHANGED <<engineVars, collectVars, otherVars>>

\* client.go 1171-1176: delete(c.dirCache, dir) under the write lock; after
\* the last one the operation returns nil
invalidateDirCache ==
    /\ mpc = "invalidate"
    /\ dirCache' = [dirCache EXCEPT ![Head(mtodo)] = NoEntry]
    /\ mtodo' = Tail(mtodo)
    /\ IF Len(mtodo) = 1
       THEN /\ mpc' = "idle"
            /\ dirty' = [d \in CachePaths |->
                           dirty[d] \/ \E i \in 1..Len(mdirs) : mdirs[i] = d]
       ELSE UNCHANGED <<mpc, dirty>>
    /\ UNCHANGED <<workDir, now, serverDir, lpc, lpath, lfiles, lret>>
    /\ UNCHANGED <<localWorkDir, mop, mdirs, mtarget, mstat, merr, lnext>>
    /\ UNCHANGED <<engineVars, collectVars, otherVars>>

ChdirBeforeStat ==
    /\ Called("Chdir")
    /\ \E dir \in ListArgs, getwdOk \in BOOLEAN, st \in StatAnswers :
          /\ mtarget' = ResolveRemotePath(dir, getwdOk)
          /\ mstat' = st
          /\ workDir' = mtarget'
          /\ IF st = "dir"
             THEN /\ mpc' = "clear"
                  /\ merr' = FALSE
                  /\ UNCHANGED <<mdirs, mtodo>>
             ELSE ReturnsError
    /\ UNCHANGED <<now, dirCache, serverDir, lpc, lpath, lfiles, lret>>
    /\ UNCHANGED <<localWorkDir, dirty, lnext>>
    /\ UNCHANGED <<engineVars, collectVars, otherVars>>

\* client.go 959-968: Chdir resolves, stats, and sets c.workDir
Chdir ==
    /\ Called("Chdir")
    /\ \E dir \in ListArgs, getwdOk \in BOOLEAN, st \in StatAnswers :
          /\ mtarget' = ResolveRemotePath(dir, getwdOk)
          /\ mstat' = st
          /\ IF st = "dir"
             THEN /\ workDir' = mtarget'
                  /\ mpc' = "clear"
                  /\ merr' = FALSE
                  /\ UNCHANGED <<mdirs, mtodo>>
             ELSE /\ ReturnsError
                  /\ UNCHANGED workDir
    /\ UNCHANGED <<now, dirCache, serverDir, lpc, lpath, lfiles, lret>>
    /\ UNCHANGED <<localWorkDir, dirty, lnext>>
    /\ UNCHANGED <<engineVars, collectVars, otherVars>>

\* client.go 970-971 and 1164-1168: ClearDirCache, then Chdir returns nil;
\* every listing cached before is gone, as after a mutation
ClearDirCache ==
    /\ mpc = "clear"
    /\ dirCache' = EmptyCache
    /\ mpc' = "idle"
    /\ UNCHANGED <<workDir, now, serverDir, lpc, lpath, lfiles, lret>>
    /\ UNCHANGED <<localWorkDir, mop, mdirs, mtodo, mtarget, mstat, merr, dirty, lnext>>
    /\ UNCHANGED <<engineVars, collectVars, otherVars>>

\* client.go 921-932
LocalChdir ==
    /\ Called("LocalChdir")
    /\ \E dir \in ListArgs, homeOk \in BOOLEAN, st \in StatAnswers :
          /\ mtarget' = ResolveLocalPath(dir, homeOk)
          /\ mstat' = st
          /\ IF st = "dir"
             THEN /\ localWorkDir' = mtarget'
                  /\ mpc' = "idle"
                  /\ merr' = FALSE
                  /\ UNCHANGED <<mdirs, mtodo>>
             ELSE /\ ReturnsError
                  /\ UNCHANGED localWorkDir
    /\ UNCHANGED <<workDir, now, dirCache, serverDir, lpc, lpath, lfiles, lret>>
    /\ UNCHANGED <<dirty, lnext>>
    /\ UNCHANGED <<engineVars, collectVars, otherVars>>

(* Remove and Rename of the directory "/d" itself.  Here the listing of "/" *)
(* is 1 when d is in it, and 0 when it is not.                               *)

\* client.go 1007-1027, up to the end of the deletion: Remove("/d").  Stat
\* fails when d is not there; removeDir deletes what is in d and then d, or
\* stops at the first error with d emptied or as it was.
RemoveDir ==
    /\ Called("Remove")
    /\ mtarget' = <<"d">>
    /\ IF serverDir[<<>>] = 0
       THEN /\ mstat' = "err"
            /\ ReturnsError
            /\ UNCHANGED serverDir
       ELSE /\ mstat' = "dir"
            /\ \/ /\ serverDir' = [serverDir EXCEPT ![<<>>] = 0, ![mtarget'] = 0]
                  /\ Invalidates(<<Dir(mtarget')>>)
               \/ /\ ReturnsError
                  /\ \E l \in {0, serverDir[mtarget']} :
                        serverDir' = [serverDir EXCEPT ![mtarget'] = l]
    /\ UNCHANGED <<workDir, now, dirCache, lpc, lpath, lfiles, lret>>
    /\ UNCHANGED <<localWorkDir, dirty, lnext>>
    /\ UNCHANGED <<engineVars, collectVars, otherVars>>

\* client.go 1064-1074, up to the sftp call: Rename("/d", "/e"), e a name
\* that is free when d is there
RenameDir ==
    /\ Called("Rename")
    /\ mtarget' = <<"d">>
    /\ mstat' = "none"
    /\ \/ /\ serverDir[<<>>] = 1
          /\ serverDir' = [serverDir EXCEPT ![<<>>] = 0, ![mtarget'] = 0]
          /\ Invalidates(<<Dir(mtarget'), Dir(<<"e">>)>>)
       \/ /\ ReturnsError
          /\ UNCHANGED serverDir
    /\ UNCHANGED <<workDir, now, dirCache, lpc, lpath, lfiles, lret>>
    /\ UNCHANGED <<localWorkDir, dirty, lnext>>
    /\ UNCHANGED <<engineVars, collectVars, otherVars>>

\* sftpClient.ReadDir of a directory that is not on the server fails
ReadDirOfServer(c) ==
    /\ ListReadDir(c)
    /\ lpath[c] = <<"d">> /\ serverDir[<<>>] = 0 => lret'[c].from = "error"

\* List next to Remove and Rename of "/d"; somebody else makes d again, or
\* changes what is in it
RemoveDirNext ==
    \/ \E c \in Callers : ListCall(c) \/ ListLookup(c) \/ ReadDirOfServer(c) \/ ListStore(c)
    \/ RemoveDir
    \/ RenameDir
    \/ invalidateDirCache
    \/ ServerChange

\* List next to the operations that change a directory on the server, at one
\* instant: every entry of the cache is fresh.
MutateNext ==
    \/ \E c \in Callers : List(c)
    \/ Mkdir
    \/ Remove
    \/ Rename
    \/ invalidateDirCache

(* The shell's ls.  The shell reads a command, runs it and reads the next:  *)
(* one goroutine, caller 1 of List.                                         *)

ClearedCacheKept(cache) == cache

\* client.go 1164-1168: c.dirCache = make(map[string]*dirCacheEntry)
ClearedCache(cache) == EmptyCache

\* A call of List that is not the one of ls: it may leave an entry in the cache.
ApiList == mpc = "idle" /\ ListCall(1)

\* shell.go 278-285: ls [dir]: s.client.ClearDirCache()
cmdLsClear ==
    /\ Called("ls")
    /\ lpc[1] = "idle"
    /\ dirCache' = ClearedCache(dirCache)
    /\ mpc' = "list"
    /\ merr' = FALSE
    /\ UNCHANGED <<workDir, now, serverDir, lpc, lpath, lfiles, lret>>
    /\ UNCHANGED <<localWorkDir, mdirs, mtodo, mtarget, mstat, dirty, lnext>>
    /\ UNCHANGED <<engineVars, collectVars, otherVars>>

\* shell.go 287: files, err := s.client.List(dir)
cmdLsList ==
    /\ mpc = "list"
    /\ \E dir \in ListArgs, getwdOk \in BOOLEAN :
          lpath' = [lpath EXCEPT ![1] = ResolveRemotePath(dir, getwdOk)]
    /\ lpc' = [lpc EXCEPT ![1] = "lookup"]
    /\ lret' = [lret EXCEPT ![1] = NoReturnYet]
    /\ mpc' = "listing"
    /\ UNCHANGED <<workDir, now, dirCache, serverDir, lfiles>>
    /\ UNCHANGED <<localWorkDir, mop, mdirs, mtodo, mtarget, mstat, merr, dirty, lnext>>
    /\ UNCHANGED <<engineVars, collectVars, otherVars>>

\* shell.go 288-307: List returned; the error is returned or the listing printed
cmdLsReturn ==
    /\ mpc = "listing"
    /\ lpc[1] = "idle"
    /\ mpc' = "idle"
    /\ merr' = (lret[1].from = "error")
    /\ UNCHANGED <<workDir, now, dirCache, serverDir, lpc, lpath, lfiles, lret>>
    /\ UNCHANGED <<localWorkDir, mop, mdirs, mtodo, mtarget, mstat, dirty, lnext>>
    /\ UNCHANGED <<engineVars, collectVars, otherVars>>

\* The shell's commands one after the other, while the server's
\* directories change and time passes.
LsNext ==
    \/ ApiList
    \/ ListLookup(1)
    \/ ListReadDir(1)
    \/ ListStore(1)
    \/ cmdLsClear
    \/ cmdLsList
    \/ cmdLsReturn
    \/ Tick
    \/ ServerChange

\* List next to Upload, while the entries of the cache are fresh.
UploadCacheNext ==
    \/ \E c \in Callers : List(c)
    \/ Tick /\ now' < DirCacheTimeout
    \/ Upload

\* List next to the operations that change the working directories, at one
\* instant.
ChdirNext ==
    \/ \E c \in Callers : List(c)
    \/ Chdir
    \/ ClearDirCache
    \/ LocalChdir

-----------------------------------------------------------------------------
(* Path strings                                                            *)
(* A path string is the sequence of its characters.                        *)

Chars == {"/", ".", "~", "a"}

Strings(n) == UNION {[1..k -> Chars] : k \in 0..n}

Slash == <<"/">>
Dot == <<".">>
DotDot == <<".", ".">>

\* strings.Split(s, "/"): the pieces between the slashes, from character i on
RECURSIVE SplitFrom(_, _, _, _)
SplitFrom(s, i, cur, acc) ==
    IF i > Len(s) THEN Append(acc, cur)
    ELSE IF s[i] = "/" THEN SplitFrom(s, i + 1, <<>>, Append(acc, cur))
    ELSE SplitFrom(s, i + 1, Append(cur, s[i]), acc)

\* path.Clean, rules 1-4, on the pieces: empty pieces and "." go; ".." takes
\* the piece before it away, goes itself at the root, and stays at the start
\* of a relative path
RECURSIVE CleanPieces(_, _, _, _)
CleanPieces(pieces, i, out, rooted) ==
    IF i > Len(pieces) THEN out
    ELSE LET x == pieces[i]
         IN  IF x = <<>> \/ x = Dot THEN CleanPieces(pieces, i + 1, out, rooted)
             ELSE IF x = DotDot
             THEN IF Len(out) > 0 /\ out[Len(out)] # DotDot
                  THEN CleanPieces(pieces, i + 1, SubSeq(out, 1, Len(out) - 1), rooted)
                  ELSE IF rooted THEN CleanPieces(pieces, i + 1, out, rooted)
                  ELSE CleanPieces(pieces, i + 1, Append(out, x), rooted)
             ELSE CleanPieces(pieces, i + 1, Append(out, x), rooted)

\* strings.Join(pieces, "/")
RECURSIVE JoinPieces(_, _)
JoinPieces(pieces, i) ==
    IF i > Len(pieces) THEN <<>>
    ELSE IF i = Len(pieces) THEN pieces[i]
    ELSE pieces[i] \o Slash \o JoinPieces(pieces, i + 1)

\* path.IsAbs
PathIsAbs(s) == Len(s) > 0 /\ s[1] = "/"

\* path.Clean / filepath.Clean
PathClean(s) ==
    LET body == JoinPieces(CleanPieces(SplitFrom(s, 1, <<>>, <<>>), 1, <<>>, PathIsAbs(s)), 1)
    IN  IF PathIsAbs(s) THEN Slash \o body
        ELSE IF body = <<>> THEN Dot
        ELSE body

\* path.Join(a, b) / filepath.Join(a, b): empty elements are ignored
PathJoin(a, b) ==
    IF a = <<>> /\ b = <<>> THEN <<>>
    ELSE IF a = <<>> THEN PathClean(b)
    ELSE IF b = <<>> THEN PathClean(a)
    ELSE PathClean(a \o Slash \o b)

\* strings.HasPrefix(s, prefix)
HasPrefix(s, prefix) ==
    Len(prefix) <= Len(s) /\ SubSeq(s, 1, Len(prefix)) = prefix

\* client.go 1118-1138 and 1141-1161: ResolveRemotePath and ResolveLocalPath
\* on strings, with the working directory wd; homeOk: the call that asks for
\* the home directory returned no error
ResolveString(p, wd, home, homeOk) ==
    IF p = <<>> THEN wd
    ELSE IF p = <<"~">> THEN (IF homeOk THEN home ELSE wd)
    ELSE IF HasPrefix(p, <<"~", "/">>) /\ homeOk
         THEN PathClean(PathJoin(home, SubSeq(p, 3, Len(p))))
    ELSE IF PathIsAbs(p) THEN PathClean(p)
    ELSE PathClean(PathJoin(wd, p))

\* The remote working directory: what the server reported at the start, "/"
\* when it reported nothing (client.go 58-61), or a target of Chdir.
RemoteWorkDirs == {Slash, <<"/", "a">>}

\* The remote home: the server's RealPath(".").
RemoteHomes == {Slash, <<"/", "a">>}

\* The local working directory: os.Getwd(), "." when it failed (client.go
\* 64-67), or a target of LocalChdir.
LocalWorkDirs == {Slash, <<"/", "a">>, Dot}

\* The local home: the value of $HOME, as it is.
LocalHomes == {Slash, <<"/", "a">>, <<"/", "a", "/">>}

PathIdle ==
    /\ rpc = "off"
    /\ rlocal = FALSE
    /\ rwd = Slash
    /\ rhome = Slash
    /\ rin = <<>>
    /\ rout = <<>>

PathInit ==
    /\ rpc = "start"
    /\ rlocal \in BOOLEAN
    /\ rwd \in (IF rlocal THEN LocalWorkDirs ELSE RemoteWorkDirs)
    /\ rhome \in (IF rlocal THEN LocalHomes ELSE RemoteHomes)
    /\ rin \in Strings(MaxPathLen)
    /\ rout = <<>>

\* A caller resolves p.
ResolveOnce ==
    /\ rpc = "start"
    /\ \E homeOk \in BOOLEAN :
          rout' = <<ResolveString(rin, rwd, rhome, homeOk)>>
    /\ rpc' = "once"
    /\ UNCHANGED <<rlocal, rwd, rhome, rin>>
    /\ UNCHANGED <<engineVars, collectVars, cacheVars, sessionVars, rmVars, globVars, compVars, ensureVars,
                   unitVars>>

\* The caller resolves the result of the first call.
ResolveAgain ==
    /\ rpc = "once"
    /\ \E homeOk \in BOOLEAN :
          rout' = Append(rout, ResolveString(rout[1], rwd, rhome, homeOk))
    /\ rpc' = "twice"
    /\ UNCHANGED <<rlocal, rwd, rhome, rin>>
    /\ UNCHANGED <<engineVars, collectVars, cacheVars, sessionVars, rmVars, globVars, compVars, ensureVars,
                   unitVars>>

PathNext ==
    \/ ResolveOnce
    \/ ResolveAgain

-----------------------------------------------------------------------------
(* Remove of a file or of a directory tree                                 *)
(* The state of a deletion in progress is a record: the remote file system, *)
(* the calls issued so far, and whether the last one failed.                *)

\* One server call: it fails when it is the call chosen to fail, or when
\* the server refuses it (refused).
Call(st, op, path, refused) ==
    LET ok == ~refused /\ Len(st.log) + 1 # rmFailAt
    IN  [st EXCEPT !.log = Append(@, [op |-> op, path |-> path, ok |-> ok]),
                   !.err = ~ok]

AbortsNever(st) == FALSE

\* client.go 1039-1045: if err != nil { return err }
Aborts(st) == st.err

\* The entry at path p is gone from the server.
Without(st, p) == [st EXCEPT !.fs = {n \in @ : n.path # p}]

RECURSIVE removeDir(_, _)
RECURSIVE RemoveEntries(_, _, _, _)

\* client.go 1036-1047: the loop over the listing, from entry i on
RemoveEntries(st, entries, i, dir) ==
    IF i > Len(entries) THEN st
    ELSE LET fullPath == JoinRemote(dir, entries[i].name)
         IN  IF entries[i].kind \in {"dir", "noread"}
             THEN LET sub == removeDir(st, fullPath)
                  IN  IF Aborts(sub) THEN sub
                      ELSE RemoveEntries(sub, entries, i + 1, dir)
             ELSE LET f == Call(st, "Remove", fullPath, FALSE)
                  IN  IF Aborts(f) THEN f
                      ELSE RemoveEntries(Without(f, fullPath), entries, i + 1, dir)

\* client.go 1030-1050
removeDir(st, dir) ==
    LET r == Call(st, "ReadDir", dir, ReadDirFails(st.fs, dir))
    IN  IF r.err THEN r
        ELSE LET e == RemoveEntries(r, ReadDir(st.fs, dir), 1, dir)
             IN  IF Aborts(e) THEN e
                 ELSE LET d == Call(e, "RemoveDirectory", dir, FALSE)
                      IN  IF d.err THEN d ELSE Without(d, dir)

\* The paths Remove is called with: the root of the tree and an entry of it.
RemoveTargets == {RemoteRoot, Append(RemoteRoot, Names[1])}

RemoveIdle ==
    /\ rmpc = "off"
    /\ rmTarget = <<>>
    /\ rmFailAt = 0
    /\ rmBefore = {}
    /\ rmLog = <<>>
    /\ rmErr = FALSE

RemoveInit ==
    /\ remoteFS \in {t \in Trees(RemoteRoot) : \A n \in t : n.kind # "gone"}
    /\ localFS = {}
    /\ colOp = "none"
    /\ optMaxDepth = 0
    /\ colErr = FALSE
    /\ rmpc = "start"
    /\ rmTarget \in RemoveTargets
    /\ rmFailAt \in 0..(2 * Cardinality(remoteFS) + 1)
    /\ rmBefore = remoteFS
    /\ rmLog = <<>>
    /\ rmErr = FALSE

\* client.go 1007-1027: Remove(remotePath), with the deletion of the tree and
\* the invalidation of the parent's listing
RemoveTree ==
    /\ rmpc = "start"
    /\ LET st0 == [fs |-> remoteFS, log |-> <<>>, err |-> FALSE]
           s1 == Call(st0, "Stat", rmTarget, ~Exists(remoteFS, rmTarget))
           s2 == IF s1.err THEN s1
                 ELSE IF IsDir(remoteFS, rmTarget) THEN removeDir(s1, rmTarget)
                 ELSE LET f == Call(s1, "Remove", rmTarget, FALSE)
                      IN  IF f.err THEN f ELSE Without(f, rmTarget)
       IN  /\ remoteFS' = s2.fs
           /\ rmLog' = s2.log
           /\ rmErr' = s2.err
           /\ dirCache' = IF ~s2.err /\ Dir(rmTarget) \in DOMAIN dirCache
                          THEN [dirCache EXCEPT ![Dir(rmTarget)] = NoEntry]
                          ELSE dirCache
    /\ rmpc' = "done"
    /\ UNCHANGED <<rmTarget, rmFailAt, rmBefore>>
    /\ UNCHANGED <<localFS, colOp, optMaxDepth, colErr>>
    /\ UNCHANGED <<workDir, now, serverDir, lpc, lpath, lfiles, lret>>
    /\ UNCHANGED <<engineVars, sessionVars, pathVars, globVars, compVars, ensureVars,
                   unitVars>>

\* The caller looks at what is left on the server.
RemoveSeen ==
    /\ rmpc = "done"
    /\ rmpc' = "seen"
    /\ UNCHANGED <<rmTarget, rmFailAt, rmBefore, rmLog, rmErr>>
    /\ UNCHANGED <<engineVars, collectVars, cacheVars, sessionVars, pathVars, globVars, compVars, ensureVars,
                   unitVars>>

RemoveNext ==
    \/ RemoveTree
    \/ RemoveSeen

-----------------------------------------------------------------------------
(* Glob patterns                                                           *)
(* A pattern is the sequence of its segments, a segment the sequence of    *)
(* its characters; <<"a">>, <<"*">> is the pattern "/a/*".  Entry names    *)
(* are single characters.                                                  *)

PatSegs == {<<"a">>, <<"*">>, <<"?">>, <<"*", "*">>, <<"[", "a", "]">>, <<"[", "a">>}

RECURSIVE PatternsOfLen(_)
PatternsOfLen(n) ==
    IF n = 0 THEN {<<>>}
    ELSE {Append(q, g) : q \in PatternsOfLen(n - 1), g \in PatSegs}

Patterns == UNION {PatternsOfLen(n) : n \in 1..MaxPatLen}

\* The position of the "]" that closes the class opened at i, 0 if none.
ClassEnd(seg, i) ==
    LET ends == {k \in (i + 2)..Len(seg) : seg[k] = "]"}
    IN  IF ends = {} THEN 0 ELSE CHOOSE k \in ends : \A m \in ends : k <= m

\* doublestar.ValidatePattern, for one segment: every class is closed
RECURSIVE SegValid(_, _)
SegValid(seg, i) ==
    IF i > Len(seg) THEN TRUE
    ELSE IF seg[i] = "[" THEN ClassEnd(seg, i) # 0 /\ SegValid(seg, ClassEnd(seg, i) + 1)
    ELSE SegValid(seg, i + 1)

ValidatePattern(pattern) == \A k \in 1..Len(pattern) : SegValid(pattern[k], 1)

\* The match of one segment against a name, character by character
RECURSIVE SegMatch(_, _, _, _)
SegMatch(seg, i, name, j) ==
    IF i > Len(seg) THEN j > Len(name)
    ELSE IF seg[i] = "*"
         THEN \/ SegMatch(seg, i + 1, name, j)
              \/ j <= Len(name) /\ SegMatch(seg, i, name, j + 1)
    ELSE IF seg[i] = "?"
         THEN j <= Len(name) /\ SegMatch(seg, i + 1, name, j + 1)
    ELSE IF seg[i] = "["
         THEN /\ ClassEnd(seg, i) # 0
              /\ j <= Len(name)
              /\ \E k \in (i + 1)..(ClassEnd(seg, i) - 1) : seg[k] = name[j]
              /\ SegMatch(seg, ClassEnd(seg, i) + 1, name, j + 1)
    ELSE j <= Len(name) /\ seg[i] = name[j] /\ SegMatch(seg, i + 1, name, j + 1)

DoubleStar == <<"*", "*">>

\* The match of the segments from i on against the path from j on: "**"
\* stands for any number of segments, every other segment for one.
RECURSIVE PathMatch(_, _, _, _)
PathMatch(pattern, i, path, j) ==
    IF i > Len(pattern) THEN j > Len(path)
    ELSE IF pattern[i] = DoubleStar
         THEN \/ PathMatch(pattern, i + 1, path, j)
              \/ j <= Len(path) /\ PathMatch(pattern, i, path, j + 1)
    ELSE /\ j <= Len(path)
         /\ SegMatch(pattern[i], 1, <<path[j]>>, 1)
         /\ PathMatch(pattern, i + 1, path, j + 1)

\* doublestar.Match(pattern, file): ErrBadPattern for a malformed pattern
Match(pattern, file) ==
    IF ~ValidatePattern(pattern) THEN [matched |-> FALSE, err |-> TRUE]
    ELSE [matched |-> PathMatch(pattern, 1, file, 1), err |-> FALSE]

RECURSIVE walk(_, _, _)
RECURSIVE WalkEntries(_, _, _, _, _)

\* download.go 237-246: the loop over the entries, from entry i on
WalkEntries(fs, entries, i, dir, recurse) ==
    IF i > Len(entries) THEN <<>>
    ELSE LET fullPath == JoinRemote(dir, entries[i].name)
         IN  <<fullPath>>
             \o (IF entries[i].kind \in {"dir", "noread"} /\ recurse
                 THEN walk(fs, fullPath, recurse) ELSE <<>>)
             \o WalkEntries(fs, entries, i + 1, dir, recurse)

\* download.go 231-248: a directory that cannot be read is ignored
walk(fs, dir, recurse) ==
    IF ReadDirFails(fs, dir) THEN <<>>
    ELSE WalkEntries(fs, ReadDir(fs, dir), 1, dir, recurse)

\* strings.ContainsAny(part, "*?[]")
HasWildcard(seg) == \E k \in 1..Len(seg) : seg[k] \in {"*", "?", "[", "]"}

\* strings.Contains(pattern, "**")
ContainsDoubleStar(pattern) ==
    \E k \in 1..Len(pattern) :
        \E m \in 1..(Len(pattern[k]) - 1) : pattern[k][m] = "*" /\ pattern[k][m + 1] = "*"

\* download.go 211-217: the index in parts of the first segment with a
\* wildcard, 0 if there is none.  parts[0] is the empty string before the
\* leading "/", so segment k of the pattern is parts[k].
BaseIdx(pattern) ==
    LET wild == {k \in 1..Len(pattern) : HasWildcard(pattern[k])}
    IN  IF wild = {} THEN 0 ELSE CHOOSE k \in wild : \A m \in wild : k <= m

\* download.go 220-226: the segments before the first wildcard, "/" if none
BasePath(pattern) ==
    IF BaseIdx(pattern) > 0
    THEN [k \in 1..(BaseIdx(pattern) - 1) |-> pattern[k][1]]
    ELSE <<>>

\* download.go 208-266: it never returns an error
globRemote(fs, pattern) ==
    LET allFiles == walk(fs, BasePath(pattern), ContainsDoubleStar(pattern))
        Keeps(file) == ~Match(pattern, file).err /\ Match(pattern, file).matched
    IN  [matches |-> SelectSeq(allFiles, Keeps), err |-> FALSE]

\* doublestar.FilepathGlob(fullPattern): ErrBadPattern for a malformed
\* pattern, else the existing paths that match, in the order of a walk
FilepathGlob(fs, pattern) ==
    LET Keeps(file) == PathMatch(pattern, 1, file, 1)
    IN  IF ~ValidatePattern(pattern) THEN [matches |-> <<>>, err |-> TRUE]
        ELSE [matches |-> SelectSeq(walk(fs, <<>>, TRUE), Keeps), err |-> FALSE]

\* path.Base(match), filepath.Base(match)
Base(p) == p[Len(p)]

SkipsDirectoryNever(recursive) == FALSE

\* upload.go 690-692, download.go 167-169: if !opts.Recursive { continue }
SkipsDirectory(recursive) == ~recursive

\* upload.go 683-710: the loop over the matches, from match i on
RECURSIVE UploadMatches(_, _, _, _, _, _, _)
UploadMatches(fs, matches, i, remotePath, recursive, maxDepth, acc) ==
    IF i > Len(matches) THEN [err |-> FALSE, tasks |-> acc]
    ELSE LET match == matches[i]
             next(a) == UploadMatches(fs, matches, i + 1, remotePath, recursive, maxDepth, a)
         IN  IF KindOf(fs, match) = "gone" THEN next(acc)
             ELSE IF IsDir(fs, match)
             THEN IF SkipsDirectory(recursive) THEN next(acc)
                  ELSE LET sub == collectUploadTasks(fs, match,
                                      JoinRemote(remotePath, Base(match)), maxDepth, 0)
                       IN  IF sub.err THEN Failed ELSE next(acc \o sub.tasks)
             ELSE next(Append(acc, [localPath  |-> match,
                                    remotePath |-> JoinRemote(remotePath, Base(match)),
                                    isUpload   |-> TRUE]))

\* download.go 160-189: the loop over the matches, from match i on
RECURSIVE DownloadMatches(_, _, _, _, _, _, _, _)
DownloadMatches(fs, lfs, matches, i, localPath, recursive, maxDepth, acc) ==
    IF i > Len(matches) THEN [err |-> FALSE, tasks |-> acc, lfs |-> lfs]
    ELSE LET match == matches[i]
             localSub == JoinLocal(localPath, Base(match))
             next(l, a) == DownloadMatches(fs, l, matches, i + 1, localPath,
                                           recursive, maxDepth, a)
         IN  IF IsDir(fs, match)
             THEN IF SkipsDirectory(recursive) THEN next(lfs, acc)
                  ELSE IF MkdirAllFails(lfs, localSub)
                       THEN [err |-> TRUE, tasks |-> <<>>, lfs |-> lfs]
                  ELSE LET sub == collectDownloadTasks(fs, MkdirAll(lfs, localSub),
                                      match, localSub, maxDepth, 0)
                       IN  IF sub.err THEN sub ELSE next(sub.lfs, acc \o sub.tasks)
             ELSE next(lfs, Append(acc, [localPath  |-> localSub,
                                         remotePath |-> match,
                                         isUpload   |-> FALSE]))

GlobIdle ==
    /\ gpc = "off"
    /\ gop = "none"
    /\ gpattern = <<>>
    /\ grecursive = FALSE
    /\ gmaxDepth = 0
    /\ gmatches = <<>>
    /\ gtasks = <<>>
    /\ gres = "none"
    /\ gcount = 0
    /\ gfailed = {}

\* The trees below "/" that the patterns are matched against
GlobTrees(kinds) ==
    {t \in TreesUnder(<<>>, 1, WidthAt(1)) : \A n \in t : n.kind \in kinds}

\* The patterns UploadGlob is called with: "/a", "/*", "/?", "/[a]", "/**",
\* "/a/*", "/*/a", "/**/a", "/a/**" and the malformed "/[a" and "/a/[a"
UploadPatterns ==
    {<<<<"a">>>>, <<<<"*">>>>, <<<<"?">>>>, <<<<"[", "a", "]">>>>, <<DoubleStar>>,
     <<<<"a">>, <<"*">>>>, <<<<"*">>, <<"a">>>>, <<DoubleStar, <<"a">>>>,
     <<<<"a">>, DoubleStar>>, <<<<"[", "a">>>>, <<<<"a">>, <<"[", "a">>>>}

GlobStart(op) ==
    /\ gpc = "start"
    /\ gop = op
    /\ grecursive \in BOOLEAN
    /\ gmaxDepth \in {-1, 1}
    /\ gmatches = <<>>
    /\ gtasks = <<>>
    /\ gres = "none"
    /\ gcount = 0
    /\ gfailed = {}
    /\ colOp = op
    /\ optMaxDepth = 0
    /\ colErr = FALSE

UploadGlobInit ==
    /\ GlobStart("UploadGlob")
    /\ gpattern \in UploadPatterns
    /\ localFS \in GlobTrees({"file", "link", "gone", "noread", "dir"})
    /\ remoteFS \in {{}, {Node(RemoteRoot, "file")}}

DownloadGlobInit ==
    /\ GlobStart("DownloadGlob")
    /\ gpattern \in Patterns
    /\ remoteFS \in GlobTrees({"file", "link", "noread", "dir"})
    /\ localFS \in {{}, {Node(LocalRoot, "file")}}

\* DownloadGlob called with the patterns UploadGlob is called with
DownloadGlobListedInit ==
    /\ GlobStart("DownloadGlob")
    /\ gpattern \in UploadPatterns
    /\ remoteFS \in GlobTrees({"file", "link", "noread", "dir"})
    /\ localFS \in {{}, {Node(LocalRoot, "file")}}

GlobReturns(res, matches) ==
    /\ gpc' = "done"
    /\ gres' = res
    /\ gmatches' = matches
    /\ gtasks' = <<>>
    /\ gcount' = 0
    /\ gfailed' = {}

GlobCollected(matches, ts) ==
    /\ gpc' = "collected"
    /\ gres' = "none"
    /\ gmatches' = matches
    /\ gtasks' = ts
    /\ gcount' = 0
    /\ gfailed' = {}

\* upload.go 653-731, up to the call of executeTasks, with remotePath "r"
UploadGlob ==
    /\ gpc = "start" /\ gop = "UploadGlob"
    /\ LET g == FilepathGlob(localFS, gpattern)
           c == UploadMatches(localFS, g.matches, 1, RemoteRoot, grecursive, gmaxDepth, <<>>)
           e == ensureRemoteDirsExist(remoteFS, collectRemoteDirsForUpload(c.tasks), 1)
       IN  IF g.err THEN GlobReturns("glob pattern", <<>>) /\ UNCHANGED remoteFS
           ELSE IF Len(g.matches) = 0
                THEN GlobReturns("no files match pattern", <<>>) /\ UNCHANGED remoteFS
           ELSE IF c.err
                THEN GlobReturns("collect tasks", g.matches) /\ UNCHANGED remoteFS
           ELSE IF Len(c.tasks) = 0
                THEN GlobReturns("no files to upload", g.matches) /\ UNCHANGED remoteFS
           ELSE /\ remoteFS' = e.fs
                /\ IF DirsFailed(e) THEN GlobReturns("create remote dirs", g.matches)
                   ELSE GlobCollected(g.matches, c.tasks)
    /\ UNCHANGED <<gop, gpattern, grecursive, gmaxDepth>>
    /\ UNCHANGED <<localFS, colOp, optMaxDepth, colErr>>
    /\ UNCHANGED <<engineVars, cacheVars, sessionVars, pathVars, rmVars, compVars, ensureVars,
                   unitVars>>

\* download.go 126-205, up to the call of executeTasks, with localPath "l"
DownloadGlob ==
    /\ gpc = "start" /\ gop = "DownloadGlob"
    /\ LET g == globRemote(remoteFS, gpattern)
           c == DownloadMatches(remoteFS, MkdirAll(localFS, LocalRoot), g.matches, 1,
                                LocalRoot, grecursive, gmaxDepth, <<>>)
       IN  IF g.err THEN GlobReturns("glob pattern", <<>>) /\ UNCHANGED localFS
           ELSE IF Len(g.matches) = 0
                THEN GlobReturns("no files match pattern", <<>>) /\ UNCHANGED localFS
           ELSE IF MkdirAllFails(localFS, LocalRoot)
                THEN GlobReturns("create local dir", g.matches) /\ UNCHANGED localFS
           ELSE /\ localFS' = c.lfs
                /\ IF c.err THEN GlobReturns("collect tasks", g.matches)
                   ELSE IF Len(c.tasks) = 0
                        THEN GlobReturns("no files to download", g.matches)
                   ELSE GlobCollected(g.matches, c.tasks)
    /\ UNCHANGED <<gop, gpattern, grecursive, gmaxDepth>>
    /\ UNCHANGED <<remoteFS, colOp, optMaxDepth, colErr>>
    /\ UNCHANGED <<engineVars, cacheVars, sessionVars, pathVars, rmVars, compVars, ensureVars,
                   unitVars>>

\* upload.go 730, download.go 204: return c.executeTasks(tasks, transferOpts).
\* The transfers of the tasks in failed return an error; executeTasks counts
\* the others.
GlobExecuteTasks ==
    /\ gpc = "collected"
    /\ \E failed \in SUBSET (1..Len(gtasks)) :
          /\ gfailed' = failed
          /\ gcount' = Len(gtasks) - Cardinality(failed)
          /\ gres' = IF failed = {} THEN "ok" ELSE "transfer errors"
    /\ gpc' = "done"
    /\ UNCHANGED <<gop, gpattern, grecursive, gmaxDepth, gmatches, gtasks>>
    /\ UNCHANGED <<engineVars, collectVars, cacheVars, sessionVars, pathVars, rmVars, compVars, ensureVars,
                   unitVars>>

UploadGlobNext ==
    \/ UploadGlob
    \/ GlobExecuteTasks

DownloadGlobNext ==
    \/ DownloadGlob
    \/ GlobExecuteTasks

-----------------------------------------------------------------------------
(* ListCompletion                                                          *)
(* Paths and names are strings here: an entry name is a sequence of        *)
(* characters, a node's path the sequence of the names on the way to it.   *)

CompletionChars == {"/", "a", "A"}

\* The names of the entries of a directory, in the order of a listing.
CompletionNames == <<<<"A">>, <<"a">>, <<"a", "a">>>>

\* What there can be at "/"+name: nothing, a file, or a directory that is
\* empty or holds a file or a directory "a".
CompletionEntryTrees(name) ==
    {{}, {Node(<<name>>, "file")}, {Node(<<name>>, "dir")}}
    \cup {{Node(<<name>>, "dir"), Node(<<name, <<"a">>>>, k)} : k \in {"file", "dir"}}

CompletionTrees ==
    {x \cup y \cup z : x \in CompletionEntryTrees(CompletionNames[1]),
                       y \in CompletionEntryTrees(CompletionNames[2]),
                       z \in CompletionEntryTrees(CompletionNames[3])}

\* The node a clean string names: the names between its slashes.
NodePath(str) ==
    LET pieces == SplitFrom(PathClean(str), 1, <<>>, <<>>)
    IN  SelectSeq(pieces, LAMBDA x : x # <<>>)

\* path.Split: the directory up to and with the last slash, and the rest
PathSplit(str) ==
    LET slashes == {k \in 1..Len(str) : str[k] = "/"}
        i == IF slashes = {} THEN 0 ELSE CHOOSE k \in slashes : \A m \in slashes : m <= k
    IN  [dir |-> SubSeq(str, 1, i), file |-> SubSeq(str, i + 1, Len(str))]

\* client.go 1101-1111: the loop over the listing, from name i on
RECURSIVE CompletionMatches(_, _, _, _, _)
CompletionMatches(fs, dir, partial, userDir, i) ==
    IF i > Len(CompletionNames) THEN <<>>
    ELSE LET name == CompletionNames[i]
             full == Append(dir, name)
         IN  (IF Exists(fs, full) /\ HasPrefix(name, partial)
              THEN <<userDir \o name \o (IF IsDir(fs, full) THEN Slash ELSE <<>>)>>
              ELSE <<>>)
             \o CompletionMatches(fs, dir, partial, userDir, i + 1)

\* client.go 1084-1115
ListCompletionOf(fs, wd, prefix) ==
    LET resolvedPath == ResolveString(prefix, wd, Slash, TRUE)
        sp == PathSplit(resolvedPath)
        dir == IF sp.dir = <<>> THEN wd ELSE sp.dir
        userDir == PathSplit(prefix).dir
    IN  IF ~IsDir(fs, NodePath(dir)) THEN <<>>
        ELSE CompletionMatches(fs, NodePath(dir), sp.file, userDir, 1)

CompletionIdle ==
    /\ cpc = "off"
    /\ cwd = <<>>
    /\ cprefix = <<>>
    /\ ccands = <<>>

\* The working directory is a directory of the server: Chdir checked it.
CompletionInit ==
    /\ cpc = "start"
    /\ remoteFS \in CompletionTrees
    /\ cwd \in {w \in RemoteWorkDirs : IsDir(remoteFS, NodePath(w))}
    /\ cprefix \in UNION {[1..k -> CompletionChars] : k \in 0..MaxPathLen}
    /\ ccands = <<>>
    /\ localFS = {}
    /\ colOp = "none"
    /\ optMaxDepth = 0
    /\ colErr = FALSE

ListCompletion ==
    /\ cpc = "start"
    /\ ccands' = ListCompletionOf(remoteFS, cwd, cprefix)
    /\ cpc' = "done"
    /\ UNCHANGED <<cwd, cprefix>>
    /\ UNCHANGED <<engineVars, collectVars, cacheVars, sessionVars, pathVars, rmVars, globVars, ensureVars,
                   unitVars>>

\* The shell shows the candidates.
CompletionShown ==
    /\ cpc = "done"
    /\ cpc' = "shown"
    /\ UNCHANGED <<cwd, cprefix, ccands>>
    /\ UNCHANGED <<engineVars, collectVars, cacheVars, sessionVars, pathVars, rmVars, globVars, ensureVars,
                   unitVars>>

CompletionNext ==
    \/ ListCompletion
    \/ CompletionShown

-----------------------------------------------------------------------------
(* ensureRemoteDir, called by several goroutines                           *)
(* A call of ensureRemoteDir is a frame [dir, pc, call, err]; call is the  *)
(* index in ecalls of the dirCreateGroup call it runs or waits for.        *)

Ensurers == 1..NumEnsurers

\* The directories asked for.
EnsureDirs == {<<Names[1]>>, <<Names[1], Names[1]>>, <<Names[2]>>}

Frame(dir) == [dir |-> dir, pc |-> "stat", call |-> 0, err |-> FALSE]

Top(g) == estack[g][Len(estack[g])]

At(g, place) == estack[g] # <<>> /\ Top(g).pc = place

\* The innermost call of g becomes f.
SetTop(g, f) == [estack EXCEPT ![g] = [@ EXCEPT ![Len(@)] = f]]

\* The innermost call of g returns err: to the call that asked for the
\* parent (upload.go 806-810), or to the caller of the outermost call.
Returned(g, err) ==
    IF Len(estack[g]) = 1
    THEN /\ estack' = [estack EXCEPT ![g] = <<>>]
         /\ eret' = [eret EXCEPT ![g] = IF err THEN "err" ELSE "nil"]
    ELSE /\ estack' = [estack EXCEPT ![g] =
                [k \in 1..(Len(@) - 1) |->
                    IF k = Len(@) - 1 THEN [@[k] EXCEPT !.pc = "parentret", !.err = err]
                    ELSE @[k]]]
         /\ UNCHANGED eret

InFlightNever(dir) == FALSE

DoubleCheckSkipped(fs, dir) == FALSE

\* upload.go 798-801: the Stat inside the deduplicated function
DoubleCheck(fs, dir) == IsDir(fs, dir)

EnsureParentSelf(dir) == dir

\* upload.go 804: parent := path.Dir(dir)
EnsureParent(dir) == Dir(dir)

RestatAccepts(fs, dir) == TRUE

\* upload.go 822-824: statErr == nil && stat.IsDir()
RestatSeesDir(fs, dir) == IsDir(fs, dir)

\* singleflight Group.Do: if c, ok := g.m[key]; ok
InFlight(dir) == eflight[dir] # 0

EnsureIdle ==
    /\ estack = <<>>
    /\ eret = <<>>
    /\ ecalls = <<>>
    /\ eflight = <<>>
    /\ ejoins = {}
    /\ eother = FALSE

EnsureInit ==
    /\ estack \in [Ensurers -> {<<Frame(d)>> : d \in EnsureDirs}]
    /\ eret = [g \in Ensurers |-> "none"]
    /\ ecalls = <<>>
    /\ eflight = [d \in EnsureDirs |-> 0]
    /\ ejoins = {}
    /\ eother = FALSE
    /\ remoteFS \in {{}, {Node(<<Names[1]>>, "file")}, {Node(<<Names[1]>>, "dir")}}
    /\ localFS = {}
    /\ colOp = "none"
    /\ optMaxDepth = 0
    /\ colErr = FALSE

EnsureRest == <<localFS, colOp, optMaxDepth, colErr, engineVars, cacheVars, sessionVars,
                pathVars, rmVars, globVars, compVars, unitVars>>

\* upload.go 792-795: the fast path
EnsureStat(g) ==
    /\ At(g, "stat")
    /\ IF IsDir(remoteFS, Top(g).dir)
       THEN Returned(g, FALSE)
       ELSE estack' = SetTop(g, [Top(g) EXCEPT !.pc = "do"]) /\ UNCHANGED eret
    /\ UNCHANGED <<remoteFS, ecalls, eflight, ejoins, eother, EnsureRest>>

\* upload.go 797, Group.Do under its mutex: wait for the call in flight for
\* this dir, or register a new one and run the function
EnsureDo(g) ==
    /\ At(g, "do")
    /\ IF InFlight(Top(g).dir)
       THEN /\ estack' = SetTop(g, [Top(g) EXCEPT !.pc = "wait", !.call = eflight[Top(g).dir]])
            /\ UNCHANGED <<ecalls, eflight>>
       ELSE /\ ecalls' = Append(ecalls, [dir |-> Top(g).dir, done |-> FALSE, err |-> FALSE,
                                         mkdirs |-> 0])
            /\ eflight' = [eflight EXCEPT ![Top(g).dir] = Len(ecalls) + 1]
            /\ estack' = SetTop(g, [Top(g) EXCEPT !.pc = "check", !.call = Len(ecalls) + 1])
    /\ UNCHANGED <<remoteFS, eret, ejoins, eother, EnsureRest>>

\* upload.go 798-810: the second Stat, then the parent first
EnsureCheck(g) ==
    /\ At(g, "check")
    /\ LET dir == Top(g).dir
           parent == EnsureParent(dir)
       IN  estack' =
             IF DoubleCheck(remoteFS, dir)
             THEN SetTop(g, [Top(g) EXCEPT !.pc = "finish", !.err = FALSE])
             ELSE IF parent # <<>>
             THEN [SetTop(g, [Top(g) EXCEPT !.pc = "parent"]) EXCEPT
                       ![g] = Append(@, Frame(parent))]
             ELSE SetTop(g, [Top(g) EXCEPT !.pc = "mkdir"])
    /\ UNCHANGED <<remoteFS, eret, ecalls, eflight, ejoins, eother, EnsureRest>>

\* upload.go 807-809: if err := c.ensureRemoteDir(parent); err != nil
EnsureParentReturned(g) ==
    /\ At(g, "parentret")
    /\ estack' = SetTop(g, [Top(g) EXCEPT !.pc = IF Top(g).err THEN "finish" ELSE "mkdir"])
    /\ UNCHANGED <<remoteFS, eret, ecalls, eflight, ejoins, eother, EnsureRest>>

\* upload.go 820: c.sftpClient.Mkdir(dir)
EnsureMkdir(g) ==
    /\ At(g, "mkdir")
    /\ IF MkdirFails(remoteFS, Top(g).dir)
       THEN /\ estack' = SetTop(g, [Top(g) EXCEPT !.pc = "restat"])
            /\ UNCHANGED remoteFS
       ELSE /\ estack' = SetTop(g, [Top(g) EXCEPT !.pc = "invalidate"])
            /\ remoteFS' = remoteFS \cup {Node(Top(g).dir, "dir")}
    /\ ecalls' = [ecalls EXCEPT ![Top(g).call].mkdirs = @ + 1]
    /\ UNCHANGED <<eret, eflight, ejoins, eother, EnsureRest>>

\* upload.go 821-825: the Stat after a Mkdir that failed
EnsureRestat(g) ==
    /\ At(g, "restat")
    /\ estack' = SetTop(g, [Top(g) EXCEPT !.pc = "finish",
                                            !.err = ~RestatSeesDir(remoteFS, Top(g).dir)])
    /\ UNCHANGED <<remoteFS, eret, ecalls, eflight, ejoins, eother, EnsureRest>>

\* upload.go 828-829: c.invalidateDirCache(parent)
EnsureInvalidate(g) ==
    /\ At(g, "invalidate")
    /\ estack' = SetTop(g, [Top(g) EXCEPT !.pc = "finish", !.err = FALSE])
    /\ dirCache' = IF Dir(Top(g).dir) \in DOMAIN dirCache
                   THEN [dirCache EXCEPT ![Dir(Top(g).dir)] = NoEntry]
                   ELSE dirCache
    /\ UNCHANGED <<remoteFS, eret, ecalls, eflight, ejoins, eother>>
    /\ UNCHANGED <<localFS, colOp, optMaxDepth, colErr, engineVars, sessionVars,
                   pathVars, rmVars, globVars, compVars, unitVars>>
    /\ UNCHANGED <<workDir, now, serverDir, lpc, lpath, lfiles, lret>>

\* singleflight doCall, under the Group's mutex: the result is stored, the
\* waiters are released and the call leaves the map; upload.go 832: return err
EnsureFinish(g) ==
    /\ At(g, "finish")
    /\ ecalls' = [ecalls EXCEPT ![Top(g).call] = [@ EXCEPT !.done = TRUE, !.err = Top(g).err]]
    /\ eflight' = [eflight EXCEPT ![Top(g).dir] = IF @ = Top(g).call THEN 0 ELSE @]
    /\ Returned(g, Top(g).err)
    /\ UNCHANGED <<remoteFS, ejoins, eother, EnsureRest>>

\* singleflight Group.Do: c.wg.Wait(); return c.val, c.err, true
EnsureWait(g) ==
    /\ At(g, "wait")
    /\ ecalls[Top(g).call].done
    /\ ejoins' = ejoins \cup {[caller |-> g, call |-> Top(g).call,
                               err |-> ecalls[Top(g).call].err]}
    /\ Returned(g, ecalls[Top(g).call].err)
    /\ UNCHANGED <<remoteFS, ecalls, eflight, eother, EnsureRest>>

\* Another client of the server makes one of the directories.
OtherClientMkdir ==
    /\ ~eother
    /\ \E d \in EnsureDirs :
          /\ ~MkdirFails(remoteFS, d)
          /\ remoteFS' = remoteFS \cup {Node(d, "dir")}
    /\ eother' = TRUE
    /\ UNCHANGED <<estack, eret, ecalls, eflight, ejoins, EnsureRest>>

EnsureCaller(g) ==
    \/ EnsureStat(g)
    \/ EnsureDo(g)
    \/ EnsureCheck(g)
    \/ EnsureParentReturned(g)
    \/ EnsureMkdir(g)
    \/ EnsureRestat(g)
    \/ EnsureInvalidate(g)
    \/ EnsureFinish(g)
    \/ EnsureWait(g)

EnsureNext ==
    \/ \E g \in Ensurers : EnsureCaller(g)
    \/ OtherClientMkdir

-----------------------------------------------------------------------------
(* executeTasks                                                            *)

TaskIds == 1..MaxTasks

\* A batch of n tasks of one direction; task i transfers the file <<"f", i>>.
Batch(n, up) ==
    [i \in 1..n |-> [localPath  |-> <<"l", i>>,
                     remotePath |-> <<"r", i>>,
                     isUpload   |-> up]]

NoReturn == [returned |-> FALSE, count |-> 0, nilErr |-> TRUE, joined |-> <<>>]

EngineIdle ==
    /\ optConcurrency = 0
    /\ concurrency = 0
    /\ pc = "off"
    /\ idx = 1
    /\ sem = 0
    /\ wg = 0
    /\ mu = 0
    /\ errs = <<>>
    /\ successCount = 0
    /\ wpc = [t \in TaskIds |-> "none"]
    /\ outcome = [t \in TaskIds |-> "none"]
    /\ tmp = [t \in TaskIds |-> <<>>]
    /\ attempts = [t \in TaskIds |-> 0]
    /\ ret = NoReturn

EngineInit ==
    \* executeTasks reads the direction of a task only to choose the call and
    \* the path of the error message (upload.go 936-949): the batches of
    \* MaxTasks tasks are uploads, the shorter ones are of either direction
    /\ \E n \in 0..MaxTasks, up \in BOOLEAN :
          /\ n = MaxTasks => up
          /\ tasks = Batch(n, up)
    /\ optConcurrency \in -1..MaxConcurrency
    /\ concurrency = 0
    /\ pc = "entry"
    /\ idx = 1
    /\ sem = 0
    /\ wg = 0
    /\ mu = 0
    /\ errs = <<>>
    /\ successCount = 0
    /\ wpc = [t \in TaskIds |-> "none"]
    /\ outcome = [t \in TaskIds |-> "none"]
    /\ tmp = [t \in TaskIds |-> <<>>]
    /\ attempts = [t \in TaskIds |-> 0]
    /\ ret = NoReturn

\* upload.go 884-890: the capacity of the semaphore
EffectiveConcurrency(c, n) ==
    LET d == IF c <= 0 THEN MaxConcurrentTransfers ELSE c
    IN  IF d > n THEN n ELSE d

\* upload.go 880-893
Enter ==
    /\ pc = "entry"
    /\ IF Len(tasks) = 0
       THEN /\ ret' = [returned |-> TRUE, count |-> 0, nilErr |-> TRUE, joined |-> <<>>]
            /\ pc' = "returned"
            /\ UNCHANGED concurrency
       ELSE /\ concurrency' = EffectiveConcurrency(optConcurrency, Len(tasks))
            /\ pc' = "loop"
            /\ UNCHANGED ret
    /\ UNCHANGED <<collectVars, cacheVars, sessionVars, otherVars, tasks, optConcurrency, idx, sem, wg, mu, errs, successCount,
                   wpc, outcome, tmp, attempts>>

LoopAddStopOnError ==
    /\ pc = "loop"
    /\ IF idx <= Len(tasks) /\ Len(errs) = 0
       THEN /\ wg' = wg + 1
            /\ pc' = "acquire"
       ELSE /\ pc' = "wait"
            /\ UNCHANGED wg
    /\ UNCHANGED <<collectVars, cacheVars, sessionVars, otherVars, tasks, optConcurrency, concurrency, idx, sem, mu, errs,
                   successCount, wpc, outcome, tmp, attempts, ret>>

\* upload.go 918-919: next iteration, wg.Add(1); 962 when the range is exhausted
LoopAdd ==
    /\ pc = "loop"
    /\ IF idx <= Len(tasks)
       THEN /\ wg' = wg + 1
            /\ pc' = "acquire"
       ELSE /\ pc' = "wait"
            /\ UNCHANGED wg
    /\ UNCHANGED <<collectVars, cacheVars, sessionVars, otherVars, tasks, optConcurrency, concurrency, idx, sem, mu, errs,
                   successCount, wpc, outcome, tmp, attempts, ret>>

AcquireNoBlock ==
    /\ pc = "acquire"
    /\ sem' = sem + 1
    /\ pc' = "spawn"
    /\ UNCHANGED <<collectVars, cacheVars, sessionVars, otherVars, tasks, optConcurrency, concurrency, idx, wg, mu, errs,
                   successCount, wpc, outcome, tmp, attempts, ret>>

\* upload.go 920: sem <- struct{}{} blocks while the channel is full
Acquire ==
    /\ pc = "acquire"
    /\ sem < concurrency
    /\ sem' = sem + 1
    /\ pc' = "spawn"
    /\ UNCHANGED <<collectVars, cacheVars, sessionVars, otherVars, tasks, optConcurrency, concurrency, idx, wg, mu, errs,
                   successCount, wpc, outcome, tmp, attempts, ret>>

\* upload.go 922, 959: go func(t transferTask){...}(task)
Spawn ==
    /\ pc = "spawn"
    /\ wpc' = [wpc EXCEPT ![idx] = "started"]
    /\ idx' = idx + 1
    /\ pc' = "loop"
    /\ UNCHANGED <<collectVars, cacheVars, sessionVars, otherVars, tasks, optConcurrency, concurrency, sem, wg, mu, errs,
                   successCount, outcome, tmp, attempts, ret>>

WaitNoWait ==
    /\ pc = "wait"
    /\ pc' = "joined"
    /\ UNCHANGED <<collectVars, cacheVars, sessionVars, otherVars, tasks, optConcurrency, concurrency, idx, sem, wg, mu, errs,
                   successCount, wpc, outcome, tmp, attempts, ret>>

\* upload.go 962: wg.Wait() returns when the counter is zero
Wait ==
    /\ pc = "wait"
    /\ wg = 0
    /\ pc' = "joined"
    /\ UNCHANGED <<collectVars, cacheVars, sessionVars, otherVars, tasks, optConcurrency, concurrency, idx, sem, wg, mu, errs,
                   successCount, wpc, outcome, tmp, attempts, ret>>

\* upload.go 969-972
Return ==
    /\ pc = "joined"
    /\ ret' = [returned |-> TRUE,
               count    |-> successCount,
               nilErr   |-> (Len(errs) = 0),
               joined   |-> errs]
    /\ pc' = "returned"
    /\ UNCHANGED <<collectVars, cacheVars, sessionVars, otherVars, tasks, optConcurrency, concurrency, idx, sem, wg, mu, errs,
                   successCount, wpc, outcome, tmp, attempts>>

\* upload.go 936-941: the worker calls UploadWithProgress or DownloadWithProgress
TransferCall(t) ==
    /\ wpc[t] = "started"
    /\ wpc' = [wpc EXCEPT ![t] = "transfer"]
    /\ attempts' = [attempts EXCEPT ![t] = @ + 1]
    /\ UNCHANGED <<collectVars, cacheVars, sessionVars, otherVars, tasks, optConcurrency, concurrency, pc, idx, sem, wg, mu, errs,
                   successCount, outcome, tmp, ret>>

\* The single-file copy returns nil, returns an error, or panics.
TransferEnd(t) ==
    /\ wpc[t] = "transfer"
    /\ \E o \in {"ok", "err", "panic"} :
          /\ outcome' = [outcome EXCEPT ![t] = o]
          /\ wpc' = [wpc EXCEPT ![t] = o]
    /\ UNCHANGED <<collectVars, cacheVars, sessionVars, otherVars, tasks, optConcurrency, concurrency, pc, idx, sem, wg, mu, errs,
                   successCount, tmp, attempts, ret>>

\* upload.go 951-953: atomic.AddInt32(&successCount, 1)
CountSuccess(t) ==
    /\ wpc[t] = "ok"
    /\ successCount' = successCount + 1
    /\ wpc' = [wpc EXCEPT ![t] = "release"]
    /\ UNCHANGED <<collectVars, cacheVars, sessionVars, otherVars, tasks, optConcurrency, concurrency, pc, idx, sem, wg, mu, errs,
                   outcome, tmp, attempts, ret>>

LockNoExclusion(t) ==
    /\ wpc[t] \in {"err", "panic"}
    /\ tmp' = [tmp EXCEPT ![t] = errs]
    /\ wpc' = [wpc EXCEPT ![t] = "append"]
    /\ UNCHANGED <<collectVars, cacheVars, sessionVars, otherVars, tasks, optConcurrency, concurrency, pc, idx, sem, wg, mu, errs,
                   successCount, outcome, attempts, ret>>

\* upload.go 943-944 (error returned) and 927-929 (recover() of a panic):
\* mu.Lock(), then append reads the slice
Lock(t) ==
    /\ wpc[t] \in {"err", "panic"}
    /\ mu = 0
    /\ mu' = t
    /\ tmp' = [tmp EXCEPT ![t] = errs]
    /\ wpc' = [wpc EXCEPT ![t] = "append"]
    /\ UNCHANGED <<collectVars, cacheVars, sessionVars, otherVars, tasks, optConcurrency, concurrency, pc, idx, sem, wg, errs,
                   successCount, outcome, attempts, ret>>

\* The error a worker records: "upload <local>: err", "download <remote>: err"
\* or "panic during transfer <local>: ..."
ErrorOf(t) ==
    [task |-> t,
     kind |-> outcome[t],
     path |-> IF outcome[t] = "err" /\ ~tasks[t].isUpload
              THEN tasks[t].remotePath ELSE tasks[t].localPath]

RecordDropPanic(t) ==
    /\ wpc[t] = "append"
    /\ errs' = IF outcome[t] = "panic" THEN errs ELSE Append(tmp[t], ErrorOf(t))
    /\ tmp' = [tmp EXCEPT ![t] = <<>>]
    /\ mu' = IF mu = t THEN 0 ELSE mu
    /\ wpc' = [wpc EXCEPT ![t] = "release"]
    /\ UNCHANGED <<collectVars, cacheVars, sessionVars, otherVars, tasks, optConcurrency, concurrency, pc, idx, sem, wg,
                   successCount, outcome, attempts, ret>>

\* upload.go 930-932 and 945-950: errs = append(errs, ...), mu.Unlock()
Record(t) ==
    /\ wpc[t] = "append"
    /\ errs' = Append(tmp[t], ErrorOf(t))
    /\ tmp' = [tmp EXCEPT ![t] = <<>>]
    /\ mu' = IF mu = t THEN 0 ELSE mu
    /\ wpc' = [wpc EXCEPT ![t] = "release"]
    /\ UNCHANGED <<collectVars, cacheVars, sessionVars, otherVars, tasks, optConcurrency, concurrency, pc, idx, sem, wg,
                   successCount, outcome, attempts, ret>>

ReleaseUnlessPanic(t) ==
    /\ wpc[t] = "release"
    /\ sem' = IF outcome[t] = "panic" THEN sem ELSE sem - 1
    /\ wpc' = [wpc EXCEPT ![t] = "done"]
    /\ UNCHANGED <<collectVars, cacheVars, sessionVars, otherVars, tasks, optConcurrency, concurrency, pc, idx, wg, mu, errs,
                   successCount, outcome, tmp, attempts, ret>>

\* upload.go 924: the deferred <-sem
Release(t) ==
    /\ wpc[t] = "release"
    /\ sem' = sem - 1
    /\ wpc' = [wpc EXCEPT ![t] = "done"]
    /\ UNCHANGED <<collectVars, cacheVars, sessionVars, otherVars, tasks, optConcurrency, concurrency, pc, idx, wg, mu, errs,
                   successCount, outcome, tmp, attempts, ret>>

\* upload.go 923: the deferred wg.Done(), the last thing the goroutine does
Done(t) ==
    /\ wpc[t] = "done"
    /\ wg' = wg - 1
    /\ wpc' = [wpc EXCEPT ![t] = "exited"]
    /\ UNCHANGED <<collectVars, cacheVars, sessionVars, otherVars, tasks, optConcurrency, concurrency, pc, idx, sem, mu, errs,
                   successCount, outcome, tmp, attempts, ret>>

Worker(t) ==
    \/ TransferCall(t)
    \/ TransferEnd(t)
    \/ CountSuccess(t)
    \/ Lock(t)
    \/ Record(t)
    \/ Release(t)
    \/ Done(t)

Dispatcher ==
    \/ Enter
    \/ LoopAdd
    \/ Acquire
    \/ Spawn
    \/ Wait
    \/ Return

EngineNext ==
    \/ Dispatcher
    \/ \E t \in TaskIds : Worker(t)

-----------------------------------------------------------------------------
(* Properties of executeTasks *)

\* The concurrency cap as the documentation states it.
Cap ==
    Min(IF optConcurrency >= 1 THEN optConcurrency ELSE MaxConcurrentTransfers, Len(tasks))

\* Workers that were started and whose goroutine has not ended.
Live == {t \in TaskIds : wpc[t] \notin {"none", "exited"}}

\* Workers that were started and have not given their semaphore slot back.
HoldingSlot == {t \in Live : wpc[t] # "done"}

Failures == {t \in 1..Len(tasks) : outcome[t] \in {"err", "panic"}}

Successes == {t \in 1..Len(tasks) : outcome[t] = "ok"}

\* Number of errors of the list es that were recorded for task t.
Recorded(es, t) == Cardinality({i \in 1..Len(es) : es[i].task = t})

\* C1, as stated: at every instant the number of workers started and not yet
\* exited is at most min(c, len(tasks)), c = Concurrency if >= 1, else 4.
C1_LiveWorkersWithinCap ==
    pc # "off" => Cardinality(Live) <= Cap

\* C1, amended: at every instant the number of workers that were started and
\* have not yet released their semaphore slot (so, the number of transfers in
\* progress) is at most min(c, len(tasks)), and at most Concurrency when that
\* is >= 1.
C1_SlotHoldersWithinCap ==
    pc # "off" =>
       /\ Cardinality(HoldingSlot) <= Cap
       /\ Cardinality({t \in TaskIds : wpc[t] = "transfer"}) <= Cap
       /\ optConcurrency >= 1 => Cardinality(HoldingSlot) <= optConcurrency

\* C1 witness: the cap is reached with tasks left over, the dispatcher waits
\* for a slot.
C1_Witness ==
    /\ pc = "acquire"
    /\ Cap < Len(tasks)
    /\ Cardinality({t \in TaskIds : wpc[t] = "transfer"}) = Cap

\* C2: when m of the n tasks fail, executeTasks returns n - m and a joined
\* error holding exactly m errors, one for each failed task; (n, nil) when
\* none fails.
C2_ExactCountAndErrors ==
    ret.returned =>
       /\ ret.count = Len(tasks) - Cardinality(Failures)
       /\ Len(ret.joined) = Cardinality(Failures)
       /\ \A t \in Failures : Recorded(ret.joined, t) = 1
       /\ \A t \in Successes : Recorded(ret.joined, t) = 0
       /\ ret.nilErr <=> Failures = {}
       /\ Failures = {} => ret.count = Len(tasks)

\* C2 witness: a batch of three returned with two failures.
C2_Witness ==
    /\ ret.returned
    /\ Len(tasks) = 3
    /\ Cardinality(Failures) = 2
    /\ ret.count = 1

\* C3: a panic of one worker becomes exactly one recorded error of that task;
\* the worker still releases its slot and signals completion; every other
\* task runs and counts by its own outcome.
C3_PanicIsolated ==
    /\ \A t \in TaskIds :
          outcome[t] = "panic" /\ wpc[t] \in {"release", "done", "exited"} =>
             Cardinality({i \in 1..Len(errs) :
                            errs[i].task = t /\ errs[i].kind = "panic"}) = 1
    /\ pc # "off" =>
          sem = Cardinality(HoldingSlot) + (IF pc = "spawn" THEN 1 ELSE 0)
    /\ pc # "off" =>
          wg = Cardinality(Live) + (IF pc \in {"acquire", "spawn"} THEN 1 ELSE 0)
    /\ ret.returned =>
          /\ \A t \in 1..Len(tasks) : wpc[t] = "exited" /\ attempts[t] = 1
          /\ ret.count = Cardinality(Successes)
          /\ \A t \in 1..Len(tasks) :
                Recorded(ret.joined, t) = (IF outcome[t] = "ok" THEN 0 ELSE 1)

\* C3 witness: the batch returned, one worker panicked, the others succeeded.
C3_Witness ==
    /\ ret.returned
    /\ Len(tasks) = 3
    /\ outcome[2] = "panic"
    /\ outcome[1] = "ok" /\ outcome[3] = "ok"
    /\ ret.count = 2

\* C4: when executeTasks returns every worker it started has finished, no
\* transfer is in progress, and the returned count and errors are the final
\* ones.
C4_ReturnsAfterAllWorkers ==
    ret.returned =>
       /\ Live = {}
       /\ \A t \in 1..Len(tasks) : wpc[t] = "exited"
       /\ ret.count = successCount
       /\ ret.joined = errs

\* C4 witness: a batch of several tasks, run in parallel, has returned.
C4_Witness ==
    /\ ret.returned
    /\ Len(tasks) >= 2
    /\ concurrency >= 2

\* C5: every task is attempted exactly once, whatever happens to the others.
C5_EveryTaskOnce ==
    /\ \A t \in TaskIds : attempts[t] <= 1
    /\ \A t \in TaskIds : t > Len(tasks) => attempts[t] = 0
    /\ ret.returned => \A t \in 1..Len(tasks) : attempts[t] = 1

\* C5 witness: the first task failed before the last one was started, and the
\* last one was transferred all the same.
C5_Witness ==
    /\ ret.returned
    /\ Len(tasks) = 3
    /\ outcome[1] \in {"err", "panic"}
    /\ concurrency = 1
    /\ attempts[3] = 1

\* C6: under fair scheduling, and when every transfer ends, executeTasks
\* returns.
C6_EventuallyReturns == <>(pc = "returned")

\* C6 witness: the dispatcher waits for a slot while a worker that holds one
\* has panicked.
C6_Witness ==
    /\ pc = "acquire"
    /\ sem = concurrency
    /\ \E t \in TaskIds : wpc[t] = "panic"

-----------------------------------------------------------------------------
(* Properties of the task collectors and of the directory operations *)

Uploads == {"UploadDir", "put -r"}
Downloads == {"DownloadDir", "get -r"}

\* The tree a finished operation read, its root, and the root it wrote to.
SourceFS == IF colOp \in Uploads THEN localFS ELSE remoteFS
SourceRoot == IF colOp \in Uploads THEN LocalRoot ELSE RemoteRoot
DestRoot == IF colOp \in Uploads THEN RemoteRoot ELSE LocalRoot

SourceOf(t) == IF t.isUpload THEN t.localPath ELSE t.remotePath
DestOf(t) == IF t.isUpload THEN t.remotePath ELSE t.localPath

\* The path of p relative to root, and the number of subdirectory levels
\* between root and the entry p.
Rel(root, p) == SubSeq(p, Len(root) + 1, Len(p))
Level(root, p) == Len(p) - Len(root) - 1

\* The entries of the source tree below its root.
SourceEntries ==
    {n \in SourceFS : IsPrefix(SourceRoot, n.path) /\ n.path # SourceRoot}

TasksFor(p) == {i \in 1..Len(tasks) : SourceOf(tasks[i]) = p}

\* The operation collected its tasks and handed them to the engine.
Collected == colOp \in Uploads \cup Downloads /\ ~colErr

\* C7, tasks: with maxDepth = k >= 0 every task's source lies at most k
\* subdirectory levels below the source root.
TasksWithinDepth ==
    colOp \in Uploads \cup Downloads /\ optMaxDepth >= 0 =>
       \A i \in 1..Len(tasks) :
          /\ IsPrefix(SourceRoot, SourceOf(tasks[i]))
          /\ Level(SourceRoot, SourceOf(tasks[i])) <= optMaxDepth

\* C7, directories: a download with maxDepth = k >= 0 creates no local
\* directory more than k levels below the local root.
CreatesWithinDepth ==
    colOp' \in Downloads /\ optMaxDepth' >= 0 =>
       \A n \in localFS' \ localFS :
          IsPrefix(LocalRoot, n.path) /\ Len(n.path) - Len(LocalRoot) <= optMaxDepth'

\* C7: with maxDepth = k >= 0 and currentDepth = 0, every task's source file
\* is at most k subdirectory levels below the source root, and a download
\* creates no local directory deeper than k levels.
C7_DepthBound == []TasksWithinDepth /\ [][CreatesWithinDepth]_vars

\* C7 witness: a download with maxDepth = 1 of a tree that has a file two
\* levels down: the file one level down is a task, its directory was made.
C7_Witness ==
    /\ colOp = "DownloadDir" /\ ~colErr /\ optMaxDepth = 1
    /\ \E n \in remoteFS : n.kind = "file" /\ Level(RemoteRoot, n.path) = 2
    /\ \E i \in 1..Len(tasks) : Level(RemoteRoot, tasks[i].remotePath) = 1
    /\ \E n \in localFS : n.kind = "dir" /\ Len(n.path) = Len(LocalRoot) + 1

\* Each task's destination is the destination root joined with the path of
\* its source relative to the source root.
DestinationsMirror ==
    \A i \in 1..Len(tasks) :
       /\ IsPrefix(SourceRoot, SourceOf(tasks[i]))
       /\ DestOf(tasks[i]) = DestRoot \o Rel(SourceRoot, SourceOf(tasks[i]))
       /\ tasks[i].isUpload <=> colOp \in Uploads

\* C8, as stated: with maxDepth = -1 there is exactly one task for every
\* regular file of the source tree and none for anything else, and each
\* destination mirrors the source.
C8_OneTaskPerRegularFile ==
    Collected /\ optMaxDepth = -1 =>
       /\ \A n \in SourceEntries :
             Cardinality(TasksFor(n.path)) = (IF n.kind = "file" THEN 1 ELSE 0)
       /\ \A i \in 1..Len(tasks) :
             \E n \in SourceEntries : n.path = SourceOf(tasks[i])
       /\ DestinationsMirror

\* C8, amended: with maxDepth = -1 a collection that succeeds emits exactly
\* one task for every entry of the source tree that is no directory and whose
\* metadata can be read (regular files, and symbolic links and special files
\* as well), none for a directory, and each destination is the destination
\* root joined with the path relative to the source root.
C8_OneTaskPerNonDirectory ==
    Collected /\ optMaxDepth = -1 =>
       /\ \A n \in SourceEntries :
             Cardinality(TasksFor(n.path)) =
                (IF n.kind \in {"file", "link"} THEN 1 ELSE 0)
       /\ \A i \in 1..Len(tasks) :
             \E n \in SourceEntries : n.path = SourceOf(tasks[i])
       /\ DestinationsMirror

\* C8 witness: an unbounded upload collected an entry two directories down
\* and a symbolic link.
C8_Witness ==
    /\ colOp = "UploadDir" /\ ~colErr /\ optMaxDepth = -1
    /\ \E i \in 1..Len(tasks) : Level(LocalRoot, tasks[i].localPath) = 2
    /\ \E i \in 1..Len(tasks) : KindOf(localFS, tasks[i].localPath) = "link"

\* C9: put -r and get -r transfer the entire directory, every regular file at
\* every depth of the source tree becomes a task.
C9_ShellTransfersWholeTree ==
    colOp \in {"put -r", "get -r"} /\ ~colErr =>
       \A n \in SourceEntries : n.kind = "file" => TasksFor(n.path) # {}

-----------------------------------------------------------------------------
(* Properties of the listing cache *)

\* The entry for caller c's resolved path is present and less than 30
\* seconds old.
HasFreshEntry(c) ==
    /\ dirCache[lpath[c]].present
    /\ now - dirCache[lpath[c]].cachedAt < 30

\* Caller c's List decides: a fresh entry is returned as it is, with no
\* ReadDir and no change of the cache; anything else goes to the server.
ListDecides(c) ==
    lpc[c] = "lookup" /\ lpc'[c] # "lookup" =>
       IF HasFreshEntry(c)
       THEN /\ lpc'[c] = "idle"
            /\ lret'[c] = [from |-> "cache", files |-> dirCache[lpath[c]].files]
            /\ dirCache' = dirCache
       ELSE /\ lpc'[c] = "readdir"
            /\ lret'[c].from = "none"

\* Caller c's List returns cached entries only from a lookup that found a
\* fresh entry.
ListHitsOnlyFresh(c) ==
    lret'[c].from = "cache" /\ lret[c].from # "cache" =>
       lpc[c] = "lookup" /\ HasFreshEntry(c)

\* Caller c's ReadDir succeeded: the entry of the path is replaced by the
\* listing read, stamped with the current time, and the listing is returned.
ListReplaces(c) ==
    /\ lpc[c] = "readdir" /\ lpc'[c] = "store" => lfiles'[c] = serverDir[lpath[c]]
    /\ lpc[c] = "readdir" /\ lpc'[c] = "idle" =>
          lret'[c].from = "error" /\ dirCache' = dirCache
    /\ lpc[c] = "store" /\ lpc'[c] # "store" =>
          /\ dirCache'[lpath[c]] =
                [present |-> TRUE, files |-> lfiles[c], cachedAt |-> now]
          /\ lret'[c] = [from |-> "server", files |-> lfiles[c]]

\* C10: List(d) returns the cached entries of the resolved path without a
\* ReadDir if and only if the cache holds an entry for it with
\* now - cachedAt < 30 seconds; otherwise it issues ReadDir and, on success,
\* replaces the entry by the new result stamped with the current time.
C10_CacheHitIffFresh ==
    [][\A c \in Callers : ListDecides(c) /\ ListHitsOnlyFresh(c) /\ ListReplaces(c)]_vars

\* C10 witness: a List was answered from an entry 29 seconds old.
C10_Witness ==
    \E c \in Callers :
       /\ lpc[c] = "idle"
       /\ lret[c].from = "cache"
       /\ dirCache[lpath[c]].present
       /\ now - dirCache[lpath[c]].cachedAt = 29

-----------------------------------------------------------------------------
(* Properties of the session operations *)

\* C11: after a successful Mkdir, Remove or Rename of an entry directly under
\* d has returned, the next List(d) issues a server ReadDir, in every
\* interleaving, a List(d) with its ReadDir in flight during the mutation
\* included.
C11_NextListReadsServer ==
    [][\A c \in Callers :
          lpc[c] = "lookup" /\ lnext[c] /\ lpc'[c] # "lookup" =>
             lpc'[c] = "readdir"]_vars

\* A step of the goroutine that runs Chdir and LocalChdir.
SetterStep == lpc' = lpc /\ now' = now

\* C12: the remote working directory changes only in Chdir and the local one
\* only in LocalChdir, and only after the resolved target was stat'ed and
\* found to be a directory; a Chdir that fails leaves the working directory
\* and the listing cache as they were; one that succeeds leaves the working
\* directory at the resolved target and the listing cache empty.
C12_WorkDirsChangeOnlyBySetters ==
    [][/\ workDir' # workDir =>
             /\ mpc = "idle" /\ mop' = "Chdir"
             /\ mstat' = "dir"
             /\ workDir' = mtarget'
       /\ localWorkDir' # localWorkDir =>
             /\ mpc = "idle" /\ mop' = "LocalChdir"
             /\ mstat' = "dir"
             /\ localWorkDir' = mtarget'
       /\ SetterStep /\ mpc = "idle" /\ mop' \in {"Chdir", "LocalChdir"} /\ merr' =>
             /\ mstat' # "dir"
             /\ workDir' = workDir
             /\ localWorkDir' = localWorkDir
             /\ dirCache' = dirCache
       /\ SetterStep /\ mpc = "idle" /\ mop' = "Chdir" /\ mstat' = "dir" =>
             mpc' = "clear" /\ workDir' = mtarget'
       /\ mpc = "clear" /\ mpc' = "idle" =>
             /\ mop' = "Chdir" /\ ~merr'
             /\ workDir' = mtarget
             /\ dirCache' = EmptyCache]_vars

\* C12 witness: a Chdir to another directory has returned with success after
\* a List had filled the cache.
C12_Witness ==
    /\ mop = "Chdir" /\ mpc = "idle" /\ ~merr
    /\ workDir = <<"d">> /\ workDir = mtarget
    /\ dirCache = EmptyCache
    /\ \E c \in Callers : lret[c].from = "server" /\ lpc[c] = "idle"

-----------------------------------------------------------------------------
(* Properties of path resolution *)

\* C13: path resolution is idempotent: for every string p and every session
\* state, resolving the result of a resolution gives the same result, for
\* ResolveRemotePath and for ResolveLocalPath.
C13_ResolveIdempotent ==
    rpc = "twice" => rout[2] = rout[1]

-----------------------------------------------------------------------------
(* Properties of Remove *)

Deletions == {"Remove", "RemoveDirectory"}

\* The entry at path p was deleted by a call before the i-th one.
RemovedBefore(p, i) ==
    \E j \in 1..(i - 1) :
        rmLog[j].op \in Deletions /\ rmLog[j].path = p /\ rmLog[j].ok

\* A directory is deleted only after everything that was beneath it.
DepthFirst ==
    \A i \in 1..Len(rmLog) :
        rmLog[i].op = "RemoveDirectory" =>
            \A n \in rmBefore :
                (IsPrefix(rmLog[i].path, n.path) /\ n.path # rmLog[i].path)
                    => RemovedBefore(n.path, i)

\* Only the last call can have failed, and Remove returns an error exactly
\* when it did.
StopsAtFirstError ==
    /\ \A i \in 1..(Len(rmLog) - 1) : rmLog[i].ok
    /\ rmErr = (rmLog # <<>> /\ ~rmLog[Len(rmLog)].ok)

\* C14: Remove on a directory deletes depth-first: RemoveDirectory(x) is
\* issued only after every file and subdirectory under x was removed
\* successfully; the first error of a ReadDir, Remove or RemoveDirectory call
\* is returned and no deletion call is issued after it.
C14_DepthFirstFirstError ==
    rmpc \in {"done", "seen"} => DepthFirst /\ StopsAtFirstError

\* A subdirectory with content was deleted, then a later call failed.
C14_Witness ==
    /\ rmpc = "done" /\ rmErr
    /\ \E i \in 1..Len(rmLog) :
          /\ rmLog[i].op = "RemoveDirectory" /\ rmLog[i].ok
          /\ \E n \in rmBefore : Dir(n.path) = rmLog[i].path
    /\ rmLog[Len(rmLog)].op \in Deletions

-----------------------------------------------------------------------------
(* Properties of the glob transfers *)

\* C15: a malformed glob pattern is reported as a pattern error by UploadGlob
\* and by DownloadGlob, not as "no files match".
C15_BadPatternReported ==
    gpc = "done" /\ ~ValidatePattern(gpattern) => gres = "glob pattern"

\* The existing remote paths that match the pattern.
RemoteMatching ==
    {n.path : n \in {m \in remoteFS : PathMatch(gpattern, 1, m.path, 1)}}

\* C16: for a well-formed pattern, globRemote returns exactly the existing
\* remote paths that match the whole pattern, wherever its wildcards are.
C16_GlobRemoteExact ==
    (gop = "DownloadGlob" /\ gpc # "start" /\ ValidatePattern(gpattern))
        => {gmatches[i] : i \in 1..Len(gmatches)} = RemoteMatching

\* The task of a match that is no directory.
DirectTask(m) ==
    [localPath |-> m, remotePath |-> JoinRemote(RemoteRoot, Base(m)), isUpload |-> TRUE]

\* What the collector returns for a matching directory.
CollectorTasks(m) ==
    collectUploadTasks(localFS, m, JoinRemote(RemoteRoot, Base(m)), gmaxDepth, 0).tasks

Occurrences(ts, t) == Cardinality({i \in 1..Len(ts) : ts[i] = t})

Matched == {gmatches[i] : i \in 1..Len(gmatches)}

RECURSIVE TasksExpected(_)
TasksExpected(i) ==
    IF i > Len(gmatches) THEN 0
    ELSE TasksExpected(i + 1)
         + (IF KindOf(localFS, gmatches[i]) = "gone" THEN 0
            ELSE IF ~IsDir(localFS, gmatches[i]) THEN 1
            ELSE IF grecursive THEN Len(CollectorTasks(gmatches[i]))
            ELSE 0)

\* UploadGlob built its task list.
UploadGlobCollected ==
    gop = "UploadGlob" /\ (gpc = "collected" \/ gres \in {"ok", "transfer errors"})

-----------------------------------------------------------------------------
(* Properties of ListCompletion *)

\* The candidate without the slash that marks a directory.
Unmarked(cand) ==
    IF cand # <<>> /\ cand[Len(cand)] = "/" THEN SubSeq(cand, 1, Len(cand) - 1) ELSE cand

\* The entry the candidate names, resolved against the working directory.
Named(cand) == NodePath(ResolveString(Unmarked(cand), cwd, Slash, TRUE))

\* C18: every candidate of ListCompletion(prefix) begins with prefix, names
\* an existing remote entry when resolved against workDir, matches the
\* partial name typed, case-sensitively, and ends with "/" exactly when the
\* entry is a directory; also for the empty prefix and a prefix ending in "/".
C18_CandidatesSound ==
    cpc = "done" =>
        \A i \in 1..Len(ccands) :
            /\ HasPrefix(ccands[i], cprefix)
            /\ Exists(remoteFS, Named(ccands[i]))
            /\ HasPrefix(PathSplit(Unmarked(ccands[i])).file, PathSplit(cprefix).file)
            /\ (ccands[i][Len(ccands[i])] = "/") = IsDir(remoteFS, Named(ccands[i]))

-----------------------------------------------------------------------------
(* Properties of UploadDir on an empty directory *)

\* The local directory holds nothing but directories that can be read.
EmptyLocalDir ==
    IsDir(localFS, LocalRoot) /\ \A n \in localFS : n.kind = "dir"

\* C19: UploadDir of a local directory without a file at any depth transfers
\* nothing, returns (0, nil), and still creates the remote directory.
C19_EmptyDirUpload ==
    (colOp = "UploadDir" /\ EmptyLocalDir
       /\ (Exists(remoteFS, RemoteRoot) => IsDir(remoteFS, RemoteRoot)))
        => ~colErr /\ tasks = <<>> /\ IsDir(remoteFS, RemoteRoot)

-----------------------------------------------------------------------------
(* Properties of ensureRemoteDir *)

\* The places of the function that dirCreateGroup.Do runs.
SlowPath == {"check", "parent", "parentret", "mkdir", "restat", "invalidate", "finish"}

\* The callers that run a creation attempt for dir.
Attempting(dir) ==
    {g \in Ensurers :
        \E k \in 1..Len(estack[g]) : estack[g][k].dir = dir /\ estack[g][k].pc \in SlowPath}

\* C20: for every path p and every interleaving, at most one creation
\* attempt for p (the slow path that may issue Mkdir(p)) is in flight at any
\* instant; a caller that asks for p during an attempt returns only when the
\* attempt is complete, with the attempt's result.
C20_OneAttemptPerDir ==
    /\ \A d \in EnsureDirs : Cardinality(Attempting(d)) <= 1
    /\ \A j \in ejoins : ecalls[j.call].done /\ j.err = ecalls[j.call].err

\* Two callers asked for the same directory: one made it, the other waited
\* for that attempt and got its result.
C20_Witness ==
    /\ \E j \in ejoins :
          /\ ecalls[j.call].done
          /\ IsDir(remoteFS, ecalls[j.call].dir)
          /\ eret[j.caller] = "nil"
    /\ \A g \in Ensurers : eret[g] # "none"
    /\ ~eother

\* The Mkdir calls the server received for dir, from call i of ecalls on.
RECURSIVE MkdirsFrom(_, _)
MkdirsFrom(dir, i) ==
    IF i > Len(ecalls) THEN 0
    ELSE (IF ecalls[i].dir = dir THEN ecalls[i].mkdirs ELSE 0) + MkdirsFrom(dir, i + 1)

MkdirCalls(dir) == MkdirsFrom(dir, 1)

\* The directories were absent at the start and every Mkdir succeeded: all
\* there is on the server was made by a Mkdir of these callers.
ChainWasAbsent ==
    /\ ~eother
    /\ \A n \in remoteFS :
          n.kind = "dir" /\ \E k \in 1..Len(ecalls) : ecalls[k].dir = n.path /\ ecalls[k].mkdirs > 0

\* C21: when concurrent callers of ensureRemoteDir share a chain of absent
\* directories and Mkdir succeeds, the server receives exactly one Mkdir for
\* each directory of the chain, whatever the interleaving.
C21_OneMkdirPerDir ==
    ChainWasAbsent =>
        \A d \in EnsureDirs :
            /\ MkdirCalls(d) <= 1
            /\ (\E k \in 1..Len(ecalls) : ecalls[k].dir = d /\ ecalls[k].done)
                  => MkdirCalls(d) = 1

\* All callers returned; a directory was asked for by two deduplicated calls
\* one after the other, and made once.
C21_Witness ==
    /\ ChainWasAbsent
    /\ \A g \in Ensurers : eret[g] = "nil"
    /\ \E j, k \in 1..Len(ecalls) :
          j # k /\ ecalls[j].dir = ecalls[k].dir /\ MkdirCalls(ecalls[j].dir) = 1
    /\ IsDir(remoteFS, <<Names[1], Names[1]>>)

\* The innermost call of g returns in this step, with no error.
ReturnsNil(g) ==
    /\ estack[g] # <<>>
    /\ Len(estack'[g]) = Len(estack[g]) - 1
    /\ IF Len(estack[g]) = 1 THEN eret'[g] = "nil"
       ELSE ~estack'[g][Len(estack'[g])].err

\* C22: when ensureRemoteDir(p) returns no error, p is a directory on the
\* server (a Stat reported it, or Mkdir(p) succeeded); when p is something
\* else, or Mkdir fails and the Stat after it reports no directory, the call
\* returns an error.
C22_NilMeansDirectory ==
    [][\A g \in Ensurers : ReturnsNil(g) => IsDir(remoteFS', Top(g).dir)]_vars

\* One caller got nil for a directory whose Mkdir failed because another
\* client had just made it, or an error because a file is in the way.
C22_Witness ==
    /\ \E k \in 1..Len(ecalls) :
          /\ ecalls[k].done /\ ecalls[k].mkdirs = 1
          /\ \/ ~ecalls[k].err /\ eother /\ MkdirCalls(ecalls[k].dir) = 1
                  /\ ~\E n \in remoteFS : n.kind = "file"
                  /\ \A j \in 1..Len(ecalls) : ecalls[j].dir = ecalls[k].dir => j = k
             \/ ecalls[k].err /\ KindOf(remoteFS, ecalls[k].dir) = "file"
    /\ \A g \in Ensurers : eret[g] # "none"

\* C23: concurrent ensureRemoteDir calls on equal, nested or unrelated paths
\* all return in the end: the deduplicated call for the parent made inside
\* the child's deduplicated section never leads to a cyclic wait.
C23_AllCallsReturn ==
    <>(\A g \in Ensurers : eret[g] # "none")

\* A caller waited inside its own attempt for the attempt of another caller
\* on the parent, and everybody returned.
C23_Witness ==
    /\ \A g \in Ensurers : eret[g] # "none"
    /\ \E j \in ejoins : \E k \in 1..Len(ecalls) :
          /\ ecalls[k].dir # ecalls[j.call].dir
          /\ IsPrefix(ecalls[j.call].dir, ecalls[k].dir)
          /\ k < j.call

-----------------------------------------------------------------------------
(* Properties of the directories made before the transfers *)

\* The batch given to executeTasks, once the operation has called it.
UploadStarted ==
    \/ colOp \in Uploads /\ ~colErr /\ tasks # <<>>
    \/ gop = "UploadGlob" /\ (gpc = "collected" \/ gres \in {"ok", "transfer errors"})

DownloadStarted ==
    \/ colOp \in Downloads /\ ~colErr /\ tasks # <<>>
    \/ gop = "DownloadGlob" /\ (gpc = "collected" \/ gres \in {"ok", "transfer errors"})

GivenToEngine == IF gop = "none" THEN tasks ELSE gtasks

\* C24: in UploadGlob and UploadDir the collection and every remote
\* directory creation are over before the first worker starts: when
\* executeTasks is called the parent directory of every task's remote path
\* exists.
C24_RemoteParentsExist ==
    UploadStarted =>
        \A i \in 1..Len(GivenToEngine) :
            IsDir(remoteFS, Dir(GivenToEngine[i].remotePath))

\* A batch with a file two directories below the destination was handed over.
C24_Witness ==
    /\ UploadStarted
    /\ \E i \in 1..Len(GivenToEngine) : Len(GivenToEngine[i].remotePath) >= 4
    /\ \E i \in 1..Len(GivenToEngine) : Len(GivenToEngine[i].remotePath) = 2

\* C25: in DownloadDir and DownloadGlob the local parent directory of every
\* task's local path has been made before executeTasks starts a worker.
C25_LocalParentsExist ==
    DownloadStarted =>
        \A i \in 1..Len(GivenToEngine) :
            IsDir(localFS, Dir(GivenToEngine[i].localPath))

C25_Witness ==
    /\ DownloadStarted
    /\ \E i \in 1..Len(GivenToEngine) : Len(GivenToEngine[i].localPath) >= 4
    /\ \E i \in 1..Len(GivenToEngine) : Len(GivenToEngine[i].localPath) = 2

\* The proper ancestors of the path p, the root "/" left out
Ancestors(p) == {SubSeq(p, 1, k) : k \in 1..(Len(p) - 1)}

\* Something that is no directory stands where p must be a directory.
Blocked(p) == Exists(remoteFS, p) /\ ~IsDir(remoteFS, p)

\* UploadDir collected tasks, and a directory they need cannot be made.
UploadDirBlocked ==
    LET c == collectUploadTasks(localFS, LocalRoot, RemoteRoot, optMaxDepth, 0)
    IN  /\ colOp \in Uploads
        /\ ~c.err
        /\ \E i \in 1..Len(c.tasks) : \E d \in Ancestors(c.tasks[i].remotePath) : Blocked(d)

\* UploadGlob collected tasks, and their destination cannot be made.
UploadGlobBlocked ==
    /\ gop = "UploadGlob" /\ gpc # "start"
    /\ gres \notin {"glob pattern", "no files match pattern", "collect tasks",
                    "no files to upload"}
    /\ Blocked(RemoteRoot)

\* C26: when the creation of a remote directory that UploadGlob or UploadDir
\* needs fails, the operation returns count 0 and that error, and
\* executeTasks is not called: no transfer starts.
C26_NoTransferWithoutDirs ==
    /\ UploadDirBlocked => colErr /\ tasks = <<>>
    /\ UploadGlobBlocked =>
          gpc = "done" /\ gres = "create remote dirs" /\ gcount = 0 /\ gtasks = <<>>

C26_Witness ==
    /\ UploadGlobBlocked
    /\ Len(gmatches) > 1
    /\ gres = "create remote dirs"

-----------------------------------------------------------------------------
(* collectRemoteDirsForUpload on any task list                             *)

\* Remote paths of files, up to three directories deep, in two branches
DirsPaths ==
    {<<Names[1]>>,
     <<Names[1], Names[1]>>, <<Names[1], Names[2]>>, <<Names[2], Names[1]>>,
     <<Names[1], Names[1], Names[1]>>, <<Names[1], Names[2], Names[1]>>,
     <<Names[1], Names[2], Names[1], Names[2]>>}

DirsTasks ==
    {[localPath |-> <<"l">>, remotePath |-> p, isUpload |-> up] :
        p \in DirsPaths, up \in BOOLEAN}

DirsIdle == dtasks = <<>> /\ ddirs = <<>>


DirsInit ==
    /\ dtasks \in UNION {[1..n -> DirsTasks] : n \in 0..MaxTasks}
    /\ ddirs = <<>>

\* dirs := c.collectRemoteDirsForUpload(tasks)
CollectRemoteDirs ==
    /\ ddirs = <<>>
    /\ ddirs' = <<collectRemoteDirsForUpload(dtasks)>>
    /\ UNCHANGED <<dtasks, engineVars, collectVars, cacheVars, sessionVars, pathVars,
                   rmVars, globVars, compVars, ensureVars, argVars, lockVars, progVars,
                   copyVars>>

DirsNext == CollectRemoteDirs

\* The directories above the remote paths of the upload tasks
UploadAncestors ==
    UNION {Ancestors(dtasks[i].remotePath) :
             i \in {j \in 1..Len(dtasks) : dtasks[j].isUpload}}

\* C27: collectRemoteDirsForUpload returns, each once, exactly the proper
\* ancestor directories (without "/") of the remote paths of the upload tasks
\* it is given, nothing for the download tasks, and every directory after its
\* parent.
C27_RemoteDirsExact ==
    ddirs # <<>> =>
        LET dirs == ddirs[1]
        IN  /\ \A i, j \in 1..Len(dirs) : i # j => dirs[i] # dirs[j]
            /\ {dirs[i] : i \in 1..Len(dirs)} = UploadAncestors
            /\ \A j \in 1..Len(dirs) :
                  Len(dirs[j]) > 1 => \E i \in 1..(j - 1) : dirs[i] = Dir(dirs[j])

\* Two upload tasks below one directory, three levels deep, and a download
\* task whose directory is above no upload task
C27_Witness ==
    /\ ddirs # <<>>
    /\ \E i, j \in 1..Len(dtasks) :
          /\ i # j /\ dtasks[i].isUpload /\ dtasks[j].isUpload
          /\ Len(dtasks[i].remotePath) = 4
          /\ Ancestors(dtasks[i].remotePath) \cap Ancestors(dtasks[j].remotePath) # {}
    /\ \E i \in 1..Len(dtasks) :
          /\ ~dtasks[i].isUpload
          /\ Dir(dtasks[i].remotePath) \notin UploadAncestors \cup {<<>>}
    /\ Len(ddirs[1]) = 3

-----------------------------------------------------------------------------
(* The path arguments of the SFTP calls                                    *)

ArgChars == Chars \cup {"*"}

\* Chdir, List, Remove, Mkdir, Rename, Stat, DownloadWithProgress,
\* DownloadDir, UploadWithProgress, UploadGlob, UploadDir and ensureRemoteDir
\* pass what ResolveRemotePath returned; three of them stand for all.
ResolvingOps == {"Stat", "Mkdir", "List"}

ArgOps == ResolvingOps \cup {"DownloadGlob", "ListCompletion"}

\* strings.ContainsAny(part, "*?[]")
ContainsAnyWildcard(part) == \E k \in 1..Len(part) : part[k] \in {"*", "?", "[", "]"}

\* download.go 210-217: the index (from 0) of the first piece with a
\* wildcard, 0 when there is none
BaseIdxOf(parts) ==
    LET wild == {i \in 1..Len(parts) : ContainsAnyWildcard(parts[i])}
    IN  IF wild = {} THEN 0 ELSE (CHOOSE i \in wild : \A j \in wild : i <= j) - 1

\* download.go 210-226: the directory globRemote starts its walk from
GlobBaseString(pattern) ==
    LET parts == SplitFrom(pattern, 1, <<>>, <<>>)
        baseIdx == BaseIdxOf(parts)
        joined == JoinPieces(SubSeq(parts, 1, baseIdx), 1)
    IN  IF baseIdx > 0 /\ joined # <<>> THEN joined ELSE Slash

\* download.go 136-140: the pattern DownloadGlob hands to globRemote
FullPattern(pattern, wd) ==
    IF ~PathIsAbs(pattern) THEN PathJoin(wd, pattern) ELSE pattern

\* client.go 1086-1092: the directory ListCompletion lists
CompletionDir(prefix, wd, home, homeOk) ==
    LET dir == PathSplit(ResolveString(prefix, wd, home, homeOk)).dir
    IN  IF dir = <<>> THEN wd ELSE dir

ArgsIdle == ain = <<>> /\ aargs = <<>>


ArgsInit ==
    /\ ain \in [op : ArgOps, p : UNION {[1..k -> ArgChars] : k \in 0..MaxPathLen},
                wd : RemoteWorkDirs, home : RemoteHomes, homeOk : BOOLEAN]
    /\ aargs = <<>>

ArgsRest == <<engineVars, collectVars, cacheVars, sessionVars, pathVars, rmVars, globVars,
              compVars, ensureVars, dirsVars, lockVars, progVars, copyVars>>

\* client.go 1077-1079 (Stat), 1053-1055 (Mkdir), 975-990 (List)
ResolvedCall ==
    /\ aargs = <<>>
    /\ ain.op \in ResolvingOps
    /\ aargs' = <<{ResolveString(ain.p, ain.wd, ain.home, ain.homeOk)}>>
    /\ UNCHANGED <<ain, ArgsRest>>

\* download.go 136-143 and 232: c.sftpClient.ReadDir(dir), first of basePath
GlobReadDir ==
    /\ aargs = <<>>
    /\ ain.op = "DownloadGlob"
    /\ aargs' = <<{GlobBaseString(FullPattern(ain.p, ain.wd))}>>
    /\ UNCHANGED <<ain, ArgsRest>>

\* client.go 1092: c.sftpClient.ReadDir(dir)
CompletionReadDir ==
    /\ aargs = <<>>
    /\ ain.op = "ListCompletion"
    /\ aargs' = <<{CompletionDir(ain.p, ain.wd, ain.home, ain.homeOk)}>>
    /\ UNCHANGED <<ain, ArgsRest>>

ArgsNext == ResolvedCall \/ GlobReadDir \/ CompletionReadDir

\* C28: every path handed to an SFTP call by a public operation is absolute
\* and cleaned, whatever path or pattern the user gave, when the remote
\* working directory is absolute and cleaned.
C28_ArgsAbsoluteClean ==
    aargs # <<>> => \A a \in aargs[1] : PathIsAbs(a) /\ PathClean(a) = a

-----------------------------------------------------------------------------
(* c.cacheMu: who holds it, and where                                      *)

Lockers == 1..NumLockers

LockOps == {"List", "ClearDirCache", "invalidateDirCache"}

\* sync.RWMutex
Unlocked == [readers |-> {}, writer |-> 0]
CanRLock(rw) == rw.writer = 0
CanLock(rw) == rw.writer = 0 /\ rw.readers = {}
RLock(rw, g) == [rw EXCEPT !.readers = @ \cup {g}]
RUnlockLater(rw, g) == rw
RUnlock(rw, g) == [rw EXCEPT !.readers = @ \ {g}]
WLock(rw, g) == [rw EXCEPT !.writer = g]
WUnlock(rw, g) == [rw EXCEPT !.writer = 0]

Holds(g) == g \in cacheMu.readers \/ cacheMu.writer = g

LockIdle ==
    /\ kop = <<>>
    /\ kpc = <<>>
    /\ cacheMu = Unlocked

ProgressIdle ==
    /\ popts = <<>>
    /\ ppc = "idle"
    /\ globalBar = <<>>
    /\ pwork = <<>>

CopyIdle ==
    /\ xop = <<>>
    /\ xpc = <<>>
    /\ xerr = <<>>
    /\ xdst = <<>>
    /\ xcreate = <<>>
    /\ xbuf = <<>>
    /\ bufferPool = {}

UnitIdle == DirsIdle /\ ArgsIdle /\ LockIdle /\ ProgressIdle /\ CopyIdle

LockInit ==
    /\ kop = [g \in Lockers |-> "none"]
    /\ kpc = [g \in Lockers |-> "idle"]
    /\ cacheMu = Unlocked

LockRest == <<engineVars, collectVars, cacheVars, sessionVars, pathVars, rmVars, globVars,
              compVars, ensureVars, dirsVars, argVars, progVars, copyVars>>

Goto(g, place) == kpc' = [kpc EXCEPT ![g] = place]

\* A goroutine calls List, ClearDirCache or invalidateDirCache.  List and
\* invalidateDirCache begin with ResolveRemotePath (client.go 976, 1172),
\* which asks the server for the home directory when the path begins with
\* "~" (client.go 1124, 1130).
LockCall(g) ==
    /\ kop[g] = "none"
    /\ \E op \in LockOps :
          /\ kop' = [kop EXCEPT ![g] = op]
          /\ Goto(g, IF op = "ClearDirCache" THEN "lock" ELSE "resolve")
    /\ UNCHANGED <<cacheMu, LockRest>>

\* client.go 976, 1172: targetPath := c.ResolveRemotePath(dir)
LockResolve(g) ==
    /\ kpc[g] = "resolve"
    /\ Goto(g, IF kop[g] = "List" THEN "rlock" ELSE "lock")
    /\ UNCHANGED <<kop, cacheMu, LockRest>>

\* client.go 979: c.cacheMu.RLock()
ListRLock(g) ==
    /\ kpc[g] = "rlock"
    /\ CanRLock(cacheMu)
    /\ cacheMu' = RLock(cacheMu, g)
    /\ Goto(g, "lookup")
    /\ UNCHANGED <<kop, LockRest>>

\* client.go 980-987: a fresh entry: RUnlock and return; none: RUnlock
ListRUnlock(g) ==
    /\ kpc[g] = "lookup"
    /\ cacheMu' = RUnlock(cacheMu, g)
    /\ \E fresh \in BOOLEAN :
          IF fresh THEN /\ Goto(g, "idle")
                        /\ kop' = [kop EXCEPT ![g] = "none"]
          ELSE /\ Goto(g, "readdir")
               /\ UNCHANGED kop
    /\ UNCHANGED LockRest

\* client.go 990-993: files, err := c.sftpClient.ReadDir(targetPath)
ListServerReadDir(g) ==
    /\ kpc[g] = "readdir"
    /\ \E failed \in BOOLEAN :
          IF failed THEN /\ Goto(g, "idle")
                         /\ kop' = [kop EXCEPT ![g] = "none"]
          ELSE /\ Goto(g, "lock")
               /\ UNCHANGED kop
    /\ UNCHANGED <<cacheMu, LockRest>>

\* client.go 996, 1165, 1173: c.cacheMu.Lock()
CacheLock(g) ==
    /\ kpc[g] = "lock"
    /\ CanLock(cacheMu)
    /\ cacheMu' = WLock(cacheMu, g)
    /\ Goto(g, "update")
    /\ UNCHANGED <<kop, LockRest>>

\* client.go 997-1001, 1166-1167, 1174-1175: the map is updated, then
\* c.cacheMu.Unlock(), and the operation returns
CacheUnlock(g) ==
    /\ kpc[g] = "update"
    /\ cacheMu' = WUnlock(cacheMu, g)
    /\ Goto(g, "idle")
    /\ kop' = [kop EXCEPT ![g] = "none"]
    /\ UNCHANGED LockRest

LockNext ==
    \E g \in Lockers :
        \/ LockCall(g)
        \/ LockResolve(g)
        \/ ListRLock(g)
        \/ ListRUnlock(g)
        \/ ListServerReadDir(g)
        \/ CacheLock(g)
        \/ CacheUnlock(g)

\* The positions at which a goroutine is in a call of the server
InServerCall(g) == kpc[g] \in {"resolve", "readdir"}

\* C29: no goroutine is in a call of the server while it holds c.cacheMu,
\* read or write: List has released the read lock when it calls ReadDir and
\* holds the write lock only for the insertion; ClearDirCache and
\* invalidateDirCache hold it only for the update of the map.
C29_NoLockAcrossIO ==
    \A g \in Lockers :
        /\ InServerCall(g) => ~Holds(g)
        /\ cacheMu.writer = g => kpc[g] = "update"
        /\ g \in cacheMu.readers => kpc[g] = "lookup"

\* One goroutine reads the directory from the server while another updates
\* the map under the write lock.
C29_Witness ==
    \E g, h \in Lockers :
        /\ kop[g] = "List" /\ kpc[g] = "readdir"
        /\ kop[h] # "List" /\ cacheMu.writer = h

-----------------------------------------------------------------------------
(* Properties of a List whose ReadDir fails *)

\* C30: when the ReadDir that List sends to the server fails, List returns
\* the error and the cache is as it was: no entry added, replaced or removed.
C30_FailedReadDirKeepsCache ==
    [][\A c \in Callers :
          lpc[c] = "readdir" /\ lpc'[c] = "idle" =>
              /\ lret'[c] = [from |-> "error", files |-> 0]
              /\ dirCache' = dirCache]_vars

\* A List found an expired entry, asked the server, got an error and
\* returned it; the expired entry is still there.
C30_Witness ==
    \E c \in Callers :
        /\ lpc[c] = "idle"
        /\ lret[c].from = "error"
        /\ dirCache[lpath[c]].present
        /\ ~Fresh(dirCache[lpath[c]], now)

-----------------------------------------------------------------------------
(* Properties of ensureRemoteDir and the listing cache *)

\* The listing of "/" was cached by an earlier List.
RootCached ==
    [d \in CachePaths |->
        IF d = <<>> THEN [present |-> TRUE, files |-> 0, cachedAt |-> 0] ELSE NoEntry]

\* The innermost call of g returns no error in this step, from the slow path.
SlowPathReturnsNil(g) ==
    /\ ReturnsNil(g)
    /\ Top(g).pc # "stat"

\* C31: when ensureRemoteDir(p) returns no error after the slow path, the
\* cache entry of the parent of p has been dropped, also when Mkdir failed
\* and the Stat after it found p made by someone else.
C31_SuccessInvalidatesParent ==
    [][\A g \in Ensurers :
          SlowPathReturnsNil(g) /\ Dir(Top(g).dir) \in DOMAIN dirCache =>
              ~dirCache'[Dir(Top(g).dir)].present]_vars

-----------------------------------------------------------------------------
(* Properties of Upload and the listing cache *)

\* A step of the goroutine that calls Upload.
UploadStep == mpc = "idle" /\ mop' = "Upload" /\ lpc' = lpc /\ now' = now

\* C32: an Upload, with or without an error, leaves the listing cache as it
\* was, and a List(d) within the TTL of the entry of d returns the listing
\* cached before the upload.
C32_UploadKeepsCache ==
    [][/\ UploadStep => dirCache' = dirCache
       /\ \A c \in Callers :
             lpc[c] = "lookup" /\ lpc'[c] # "lookup" /\ Fresh(dirCache[lpath[c]], now) =>
                 lret'[c] = [from |-> "cache", files |-> dirCache[lpath[c]].files]]_vars

\* A file was uploaded into a directory whose listing was cached without it,
\* and a List of the directory returned that listing.
C32_Witness ==
    \E c \in Callers :
        /\ lpc[c] = "idle"
        /\ lret[c] = [from |-> "cache", files |-> 0]
        /\ serverDir[lpath[c]] = 1
        /\ mop = "Upload" /\ ~merr

-----------------------------------------------------------------------------
(* Properties of the shell's ls *)

\* C33: every ls of the shell clears the whole listing cache before it calls
\* List, so the List of an ls asks the server and is never answered from the
\* cache, whatever was done before.
C33_LsReadsServer ==
    [][/\ mpc = "list" /\ mpc' = "listing" => dirCache = EmptyCache
       /\ mpc = "listing" /\ lpc[1] = "lookup" /\ lpc'[1] # "lookup" =>
             lpc'[1] = "readdir"]_vars

\* Within the TTL of the session's first instant, an ls got the listing of
\* a directory from the server, with the entry that was made on the server
\* in the meantime, and left it in the cache.
C33_Witness ==
    /\ mpc = "listing"
    /\ lpc[1] = "idle"
    /\ lret[1] = [from |-> "server", files |-> 1]
    /\ now < DirCacheTimeout
    /\ Fresh(dirCache[lpath[1]], now)

(***************************************************************************)
(* The progress bars of executeTasks (upload.go 879-973)                   *)
(***************************************************************************)
ProgressRest == <<engineVars, collectVars, cacheVars, sessionVars, pathVars, rmVars,
                  globVars, compVars, ensureVars, dirsVars, argVars, lockVars, copyVars>>

NoBar == [created |-> 0, added |-> 0, finished |-> FALSE]

\* A batch that is not empty (an empty one returns at upload.go 880-882)
\* and the options of its call
ProgressInit ==
    /\ popts \in [ShowProgress : BOOLEAN, Concurrency : -1..MaxConcurrency, n : 1..MaxTasks]
    /\ ppc = "entry"
    /\ globalBar = NoBar
    /\ pwork = [t \in 1..popts.n |-> [state |-> "new", fileProgress |-> FALSE]]

\* The local variable concurrency after upload.go 884-890
ProgressConcurrency == EffectiveConcurrency(popts.Concurrency, popts.n)

\* upload.go 902
showGlobalProgress == popts.ShowProgress /\ ProgressConcurrency > 1

showFileProgressAlways == popts.ShowProgress

\* upload.go 903
showFileProgress == popts.ShowProgress /\ ProgressConcurrency = 1

\* upload.go 884-916: the bar of the batch is made before the loop
ProgressEnter ==
    /\ ppc = "entry"
    /\ globalBar' = IF showGlobalProgress THEN [globalBar EXCEPT !.created = @ + 1]
                    ELSE globalBar
    /\ ppc' = "loop"
    /\ UNCHANGED <<popts, pwork, ProgressRest>>

ProgressRunning == {t \in DOMAIN pwork : pwork[t].state = "running"}
ProgressNew == {t \in DOMAIN pwork : pwork[t].state = "new"}

\* upload.go 918-942: the loop takes a slot of the semaphore and starts the
\* worker of the next task, which calls the copy with showFileProgress
ProgressLaunch ==
    /\ ppc = "loop"
    /\ ProgressNew # {}
    /\ Cardinality(ProgressRunning) < ProgressConcurrency
    /\ LET t == CHOOSE u \in ProgressNew : \A v \in ProgressNew : u <= v
       IN  pwork' = [pwork EXCEPT ![t] = [state |-> "running",
                                          fileProgress |-> showFileProgress]]
    /\ UNCHANGED <<popts, ppc, globalBar, ProgressRest>>

\* upload.go 944-959: the copy is over, with an error or without one; the
\* worker adds one to the bar of the batch if there is one
ProgressWorkerDone(t) ==
    /\ pwork[t].state = "running"
    /\ pwork' = [pwork EXCEPT ![t].state = "done"]
    /\ globalBar' = IF showGlobalProgress /\ globalBar.created > 0
                    THEN [globalBar EXCEPT !.added = @ + 1]
                    ELSE globalBar
    /\ UNCHANGED <<popts, ppc, ProgressRest>>

\* upload.go 918, 962: every worker was started
ProgressLoopEnd ==
    /\ ppc = "loop"
    /\ ProgressNew = {}
    /\ ppc' = "wait"
    /\ UNCHANGED <<popts, globalBar, pwork, ProgressRest>>

\* upload.go 962-972: wg.Wait() is over, the bar is finished
ProgressReturn ==
    /\ ppc = "wait"
    /\ \A t \in DOMAIN pwork : pwork[t].state = "done"
    /\ globalBar' = IF showGlobalProgress /\ globalBar.created > 0
                    THEN [globalBar EXCEPT !.finished = TRUE]
                    ELSE globalBar
    /\ ppc' = "returned"
    /\ UNCHANGED <<popts, pwork, ProgressRest>>

ProgressNext ==
    \/ ProgressEnter
    \/ ProgressLaunch
    \/ \E t \in DOMAIN pwork : ProgressWorkerDone(t)
    \/ ProgressLoopEnd
    \/ ProgressReturn

\* The workers that were started, and the two modes as the state shows them
ProgressStarted == {t \in DOMAIN pwork : pwork[t].state # "new"}
BatchBarOnly ==
    /\ globalBar.created = 1
    /\ \A t \in ProgressStarted : ~pwork[t].fileProgress
PerFileOnly ==
    /\ globalBar.created = 0
    /\ \A t \in ProgressStarted : pwork[t].fileProgress
NoProgress ==
    /\ globalBar.created = 0
    /\ \A t \in ProgressStarted : ~pwork[t].fileProgress

\* The number of workers the options and the batch allow at a time
WorkersAllowed ==
    LET c == IF popts.Concurrency >= 1 THEN popts.Concurrency ELSE MaxConcurrentTransfers
    IN  IF popts.n < c THEN popts.n ELSE c

\* C34 as stated: the modes follow opts.Concurrency: with showProgress and
\* concurrency > 1 there is one batch bar and no per-file progress, with
\* showProgress and concurrency = 1 per-file progress and no batch bar, with
\* showProgress false neither.
C34_ModesFollowOptions ==
    ppc \in {"loop", "wait", "returned"} =>
        /\ popts.ShowProgress /\ popts.Concurrency > 1 => BatchBarOnly
        /\ popts.ShowProgress /\ popts.Concurrency = 1 => PerFileOnly
        /\ ~popts.ShowProgress => NoProgress

\* C34 amended: the modes follow showProgress and the number of workers that
\* may run at a time, min(c, len(tasks)) with c = opts.Concurrency, or 4 when
\* that is not positive: more than one gives the batch bar only, exactly one
\* gives per-file progress only, showProgress false gives neither; at most
\* one batch bar is ever made and it is never both modes at once.
C34_ModesFollowWorkers ==
    ppc \in {"loop", "wait", "returned"} =>
        /\ popts.ShowProgress /\ WorkersAllowed > 1 => BatchBarOnly
        /\ popts.ShowProgress /\ WorkersAllowed = 1 => PerFileOnly
        /\ ~popts.ShowProgress => NoProgress
        /\ globalBar.created <= 1
        /\ ~(globalBar.created > 0 /\ \E t \in ProgressStarted : pwork[t].fileProgress)

\* A batch of one file has returned: its only worker ran with per-file
\* progress and no batch bar was made, though opts.Concurrency is above one
C34_Witness ==
    /\ ppc = "returned"
    /\ popts = [ShowProgress |-> TRUE, Concurrency |-> 2, n |-> 1]
    /\ pwork[1].fileProgress
    /\ globalBar.created = 0

(* Properties of the destinations of a batch *)

\* The destination of a task: the remote path of an upload, the local path
\* of a download
Destination(t) == IF t.isUpload THEN t.remotePath ELSE t.localPath

\* C35: in every batch that UploadGlob, UploadDir, DownloadGlob or
\* DownloadDir hands to executeTasks no two tasks have the same destination
\* path.
C35_DistinctDestinations ==
    UploadStarted \/ DownloadStarted =>
        \A i, j \in 1..Len(GivenToEngine) :
            Destination(GivenToEngine[i]) = Destination(GivenToEngine[j]) => i = j

\* The same for the batches of UploadDir, DownloadDir, put -r and get -r
CollectorDestinationsDistinct ==
    (UploadStarted \/ DownloadStarted) /\ gop = "none" =>
        \A i, j \in 1..Len(tasks) : Destination(tasks[i]) = Destination(tasks[j]) => i = j

\* C36: when Remove(p) of a directory p, or Rename(p, q) of a directory p,
\* returns nil, the listing cache holds no entry for p.
C36_RemovedDirNotCached ==
    [][/\ mop \in {"Remove", "Rename"}
       /\ mpc = "invalidate" /\ mpc' = "idle"
       => ~dirCache'[mtarget].present]_vars

(***************************************************************************)
(* The single-file copy: UploadWithProgress (upload.go 598-642) and        *)
(* DownloadWithProgress (download.go 21-64), run by goroutines that each   *)
(* copy to a destination file of their own, and the buffer pool            *)
(***************************************************************************)
Copiers == 1..NumCopiers

\* The buffers that are ever allocated: no goroutine holds two
Buffers == 1..NumCopiers

CopyRest == <<engineVars, collectVars, cacheVars, sessionVars, pathVars, rmVars,
              globVars, compVars, ensureVars, dirsVars, argVars, lockVars, progVars>>

\* The destination files are not there, or hold what an earlier copy wrote
CopyInit ==
    /\ xop = [g \in Copiers |-> "none"]
    /\ xpc = [g \in Copiers |-> "idle"]
    /\ xerr = [g \in Copiers |-> "nil"]
    /\ xdst \in [Copiers -> {"absent", "old"}]
    /\ xcreate = [g \in Copiers |-> FALSE]
    /\ xbuf = [g \in Copiers |-> 0]
    /\ bufferPool = {}

CheckedOut == {xbuf[g] : g \in Copiers} \ {0}

\* Checkout: a buffer of the pool, or a new one when the pool is empty
getBuffer(pool) ==
    IF pool # {} THEN pool
    ELSE {b \in Buffers : \A f \in Buffers \ CheckedOut : b <= f} \ CheckedOut

\* Check-in: the buffer is in the pool again
putBuffer(pool, b) == pool \cup {b}

\* upload.go 598-600, download.go 21-23: the copy is called, once by each
\* goroutine, as by the workers of executeTasks (upload.go 938-942)
CopyCall(g) ==
    /\ xpc[g] = "idle"
    /\ \E op \in {"upload", "download"} : xop' = [xop EXCEPT ![g] = op]
    /\ xpc' = [xpc EXCEPT ![g] = "stat"]
    /\ xerr' = [xerr EXCEPT ![g] = "nil"]
    /\ xcreate' = [xcreate EXCEPT ![g] = FALSE]
    /\ UNCHANGED <<xdst, xbuf, bufferPool, CopyRest>>

OnSourceErrorGoOn(next) == next

\* upload.go 604-606, 609-611, download.go 27-29, 32-34: return fmt.Errorf(...)
OnSourceError(next) == "returned"

\* upload.go 603-606: os.Stat(localPath); download.go 26-29:
\* c.sftpClient.Stat(remotePath)
CopyStat(g) ==
    /\ xpc[g] = "stat"
    /\ \/ /\ xpc' = [xpc EXCEPT ![g] = "open"]
          /\ UNCHANGED xerr
       \/ /\ xerr' = [xerr EXCEPT ![g] = "stat"]
          /\ xpc' = [xpc EXCEPT ![g] = OnSourceError("open")]
    /\ UNCHANGED <<xop, xdst, xcreate, xbuf, bufferPool, CopyRest>>

\* upload.go 608-612: os.Open(localPath); download.go 31-35:
\* c.sftpClient.Open(remotePath)
CopyOpen(g) ==
    /\ xpc[g] = "open"
    /\ \/ /\ xpc' = [xpc EXCEPT ![g] = "create"]
          /\ UNCHANGED xerr
       \/ /\ xerr' = [xerr EXCEPT ![g] = "open"]
          /\ xpc' = [xpc EXCEPT ![g] = OnSourceError("create")]
    /\ UNCHANGED <<xop, xdst, xcreate, xbuf, bufferPool, CopyRest>>

\* upload.go 614-623: c.sftpClient.Create(remotePath); download.go 37-46:
\* os.Create(localPath).  Create makes the file or truncates it; when it
\* fails the deferred srcFile.Close() runs and the copy returns.
CopyCreate(g) ==
    /\ xpc[g] = "create"
    /\ xcreate' = [xcreate EXCEPT ![g] = TRUE]
    /\ \/ /\ xdst' = [xdst EXCEPT ![g] = "empty"]
          /\ xpc' = [xpc EXCEPT ![g] = "getBuffer"]
          /\ UNCHANGED xerr
       \/ /\ xerr' = [xerr EXCEPT ![g] = "create"]
          /\ xpc' = [xpc EXCEPT ![g] = "returned"]
          /\ UNCHANGED xdst
    /\ UNCHANGED <<xop, xbuf, bufferPool, CopyRest>>

\* upload.go 626, download.go 49: buf := c.getBuffer()
CopyGetBuffer(g) ==
    /\ xpc[g] = "getBuffer"
    /\ \E b \in getBuffer(bufferPool) :
          /\ xbuf' = [xbuf EXCEPT ![g] = b]
          /\ bufferPool' = bufferPool \ {b}
    /\ xpc' = [xpc EXCEPT ![g] = "copy"]
    /\ UNCHANGED <<xop, xerr, xdst, xcreate, CopyRest>>

\* upload.go 629-641, download.go 52-64: io.CopyBuffer ends without an
\* error, with one after it wrote a part of the file or nothing, or panics
CopyBuffer(g) ==
    /\ xpc[g] = "copy"
    /\ \/ /\ xdst' = [xdst EXCEPT ![g] = "written"]
          /\ UNCHANGED xerr
       \/ /\ \E e \in {"copy", "panic"} : xerr' = [xerr EXCEPT ![g] = e]
          /\ \E d \in {"empty", "partial"} : xdst' = [xdst EXCEPT ![g] = d]
    /\ xpc' = [xpc EXCEPT ![g] = "deferred"]
    /\ UNCHANGED <<xop, xcreate, xbuf, bufferPool, CopyRest>>

PutBufferUnlessPanic(err) == err # "panic"

\* upload.go 627, download.go 50: defer c.putBuffer(buf): the call runs when
\* the function returns and when it panics
PutBufferRuns(err) == TRUE

\* upload.go 612-627, download.go 35-50: the deferred calls, last one first:
\* c.putBuffer(buf), dstFile.Close(), srcFile.Close()
CopyDeferred(g) ==
    /\ xpc[g] = "deferred"
    /\ IF PutBufferRuns(xerr[g])
       THEN /\ bufferPool' = putBuffer(bufferPool, xbuf[g])
            /\ xbuf' = [xbuf EXCEPT ![g] = 0]
       ELSE UNCHANGED <<xbuf, bufferPool>>
    /\ xpc' = [xpc EXCEPT ![g] = "returned"]
    /\ UNCHANGED <<xop, xerr, xdst, xcreate, CopyRest>>

Copy(g) ==
    \/ CopyCall(g)
    \/ CopyStat(g)
    \/ CopyOpen(g)
    \/ CopyCreate(g)
    \/ CopyGetBuffer(g)
    \/ CopyBuffer(g)
    \/ CopyDeferred(g)

CopyNext == \E g \in Copiers : Copy(g)

\* C37: in a single-file copy, when the source cannot be stat'ed or opened
\* the copy returns that error at once, and the destination is neither
\* created nor truncated: no Create is called and the destination file stays
\* as it was.
C37_SourceErrorLeavesDestination ==
    [][\A g \in Copiers :
          xerr'[g] \in {"stat", "open"} =>
             /\ xpc'[g] = "returned"
             /\ ~xcreate'[g]
             /\ xdst'[g] = xdst[g]]_vars

\* An upload whose source could not be opened has returned and the remote
\* file holds what it held, while a download could not stat its source
C37_Witness ==
    \E g, h \in Copiers :
       /\ xop[g] = "upload" /\ xerr[g] = "open" /\ xpc[g] = "returned"
       /\ xdst[g] = "old" /\ ~xcreate[g]
       /\ xop[h] = "download" /\ xerr[h] = "stat" /\ xpc[h] = "returned"
       /\ xdst[h] = "absent" /\ ~xcreate[h]

CopiesInProgress == {g \in Copiers : xpc[g] \notin {"idle", "returned"}}

\* C38: a copy that is over, by success, copy error or panic, has checked
\* its buffer in again; no buffer is checked out by two copies, nor both
\* checked out and in the pool; there are never more buffers checked out
\* than copies in progress; and when every copy is over no buffer is
\* checked out.
C38_BuffersCheckedIn ==
    /\ \A g \in Copiers : xpc[g] \in {"idle", "returned"} => xbuf[g] = 0
    /\ \A g, h \in Copiers : xbuf[g] # 0 /\ xbuf[g] = xbuf[h] => g = h
    /\ CheckedOut \cap bufferPool = {}
    /\ Cardinality(CheckedOut) <= Cardinality(CopiesInProgress)
    /\ CopiesInProgress = {} => CheckedOut = {}

\* A copy that panicked is over and its buffer is in the pool, while another
\* copy is copying with a buffer of its own
C38_Witness ==
    \E g, h \in Copiers :
       /\ xpc[g] = "returned" /\ xerr[g] = "panic" /\ xbuf[g] = 0
       /\ xpc[h] = "copy" /\ xbuf[h] # 0
       /\ bufferPool # {}

-----------------------------------------------------------------------------
(* Specifications *)

OtherIdle ==
    PathIdle /\ RemoveIdle /\ GlobIdle /\ CompletionIdle /\ EnsureIdle /\ UnitIdle

SpecEngineInit == EngineInit /\ CollectIdle /\ CacheIdle /\ SessionIdle /\ OtherIdle

SpecEngine == SpecEngineInit /\ [][EngineNext]_vars

\* Termination is explored on batches one task shorter than MaxTasks: the
\* search for a behaviour that never returns costs several times more per
\* state than the search for a bad state.
FairTasks == MaxTasks - 1

SpecEngineFairInit == SpecEngineInit /\ Len(tasks) <= FairTasks

\* The Go scheduler runs every runnable goroutine, and every transfer ends.
SpecEngineFair ==
    /\ SpecEngineFairInit
    /\ [][EngineNext]_vars
    /\ WF_vars(Dispatcher)
    /\ \A t \in TaskIds : WF_vars(Worker(t))

SpecCollectInit == CollectInit /\ EngineIdle /\ CacheIdle /\ SessionIdle /\ OtherIdle

SpecCollect == SpecCollectInit /\ [][CollectNext]_vars

SpecCacheInit ==
    CacheInit /\ SessionIdle /\ EngineIdle /\ CollectIdle /\ OtherIdle /\ tasks = <<>>

SpecCache == SpecCacheInit /\ [][CacheNext]_vars

SpecMutate == SpecCacheInit /\ [][MutateNext]_vars

SpecChdir == SpecCacheInit /\ [][ChdirNext]_vars

SpecUploadCache == SpecCacheInit /\ [][UploadCacheNext]_vars

SpecLs == SpecCacheInit /\ [][LsNext]_vars

SpecPathInit ==
    /\ PathInit /\ RemoveIdle /\ GlobIdle /\ CompletionIdle /\ EnsureIdle /\ UnitIdle
    /\ EngineIdle /\ CollectIdle /\ CacheIdle /\ SessionIdle /\ tasks = <<>>

SpecPath == SpecPathInit /\ [][PathNext]_vars

SpecRemoveInit ==
    /\ RemoveInit /\ PathIdle /\ GlobIdle /\ CompletionIdle /\ EnsureIdle /\ UnitIdle
    /\ EngineIdle /\ CacheIdle /\ SessionIdle /\ tasks = <<>>

SpecRemove == SpecRemoveInit /\ [][RemoveNext]_vars

SpecDownloadGlobInit ==
    /\ DownloadGlobInit /\ PathIdle /\ RemoveIdle /\ CompletionIdle /\ EnsureIdle /\ UnitIdle
    /\ EngineIdle /\ CacheIdle /\ SessionIdle /\ tasks = <<>>

SpecDownloadGlob == SpecDownloadGlobInit /\ [][DownloadGlobNext]_vars

SpecUploadGlobInit ==
    /\ UploadGlobInit /\ PathIdle /\ RemoveIdle /\ CompletionIdle /\ EnsureIdle /\ UnitIdle
    /\ EngineIdle /\ CacheIdle /\ SessionIdle /\ tasks = <<>>

SpecUploadGlob == SpecUploadGlobInit /\ [][UploadGlobNext]_vars

SpecCompletionInit ==
    /\ CompletionInit /\ PathIdle /\ RemoveIdle /\ GlobIdle /\ EnsureIdle /\ UnitIdle
    /\ EngineIdle /\ CacheIdle /\ SessionIdle /\ tasks = <<>>

SpecCompletion == SpecCompletionInit /\ [][CompletionNext]_vars

SpecEnsureInit ==
    /\ EnsureInit /\ PathIdle /\ RemoveIdle /\ GlobIdle /\ CompletionIdle /\ UnitIdle
    /\ EngineIdle /\ CacheIdle /\ SessionIdle /\ tasks = <<>>

SpecEnsure == SpecEnsureInit /\ [][EnsureNext]_vars

\* The callers of ensureRemoteDir, after a List of "/" or without one
SpecEnsureCachedInit ==
    /\ EnsureInit /\ PathIdle /\ RemoveIdle /\ GlobIdle /\ CompletionIdle /\ UnitIdle
    /\ EngineIdle /\ SessionIdle /\ tasks = <<>>
    /\ workDir = <<>>
    /\ now = 0
    /\ dirCache \in {RootCached, [d \in CachePaths |-> NoEntry]}
    /\ serverDir = [d \in CachePaths |-> 0]
    /\ lpc = [c \in Callers |-> "idle"]
    /\ lpath = [c \in Callers |-> <<>>]
    /\ lfiles = [c \in Callers |-> 0]
    /\ lret = [c \in Callers |-> NoReturnYet]

SpecEnsureCached == SpecEnsureCachedInit /\ [][EnsureNext]_vars

\* The callers run the same code, so each choice of the directories asked
\* for is taken once, whoever asks for which: the callers' directories
\* come in the order of DirLess.
SpecEnsureFairInit ==
    /\ SpecEnsureInit
    /\ \A g, h \in Ensurers :
          g < h => \/ estack[g][1].dir = estack[h][1].dir
                   \/ DirLess(estack[g][1].dir, estack[h][1].dir)

\* Every goroutine that can take a step takes it in the end.
SpecEnsureFair ==
    /\ SpecEnsureFairInit
    /\ [][EnsureNext]_vars
    /\ \A g \in Ensurers : WF_vars(EnsureCaller(g))

\* UploadDir, put -r and UploadGlob
SpecUploadsInit == SpecCollectInit \/ SpecUploadGlobInit

SpecUploads == SpecUploadsInit /\ [][CollectNext \/ UploadGlobNext]_vars

\* DownloadDir, get -r and DownloadGlob
SpecDownloadsInit ==
    \/ SpecCollectInit
    \/ /\ DownloadGlobListedInit /\ PathIdle /\ RemoveIdle /\ CompletionIdle /\ EnsureIdle /\ UnitIdle
       /\ EngineIdle /\ CacheIdle /\ SessionIdle /\ tasks = <<>>

SpecDownloads == SpecDownloadsInit /\ [][CollectNext \/ DownloadGlobNext]_vars

SpecDirsInit ==
    /\ DirsInit /\ PathIdle /\ RemoveIdle /\ GlobIdle /\ CompletionIdle /\ EnsureIdle
    /\ ArgsIdle /\ LockIdle /\ ProgressIdle /\ CopyIdle
    /\ EngineIdle /\ CollectIdle /\ CacheIdle /\ SessionIdle /\ tasks = <<>>

SpecDirs == SpecDirsInit /\ [][DirsNext]_vars

SpecArgsInit ==
    /\ ArgsInit /\ PathIdle /\ RemoveIdle /\ GlobIdle /\ CompletionIdle /\ EnsureIdle
    /\ DirsIdle /\ LockIdle /\ ProgressIdle /\ CopyIdle
    /\ EngineIdle /\ CollectIdle /\ CacheIdle /\ SessionIdle /\ tasks = <<>>

SpecArgs == SpecArgsInit /\ [][ArgsNext]_vars

SpecLockInit ==
    /\ LockInit /\ PathIdle /\ RemoveIdle /\ GlobIdle /\ CompletionIdle /\ EnsureIdle
    /\ DirsIdle /\ ArgsIdle /\ ProgressIdle /\ CopyIdle
    /\ EngineIdle /\ CollectIdle /\ CacheIdle /\ SessionIdle /\ tasks = <<>>

SpecLock == SpecLockInit /\ [][LockNext]_vars

SpecProgressInit ==
    /\ ProgressInit /\ PathIdle /\ RemoveIdle /\ GlobIdle /\ CompletionIdle /\ EnsureIdle
    /\ DirsIdle /\ ArgsIdle /\ LockIdle /\ CopyIdle
    /\ EngineIdle /\ CollectIdle /\ CacheIdle /\ SessionIdle /\ tasks = <<>>

SpecProgress == SpecProgressInit /\ [][ProgressNext]_vars

\* "/" holds the directory d
SpecRemoveDirInit ==
    /\ workDir \in CachePaths
    /\ now = 0
    /\ dirCache = EmptyCache
    /\ serverDir = [d \in CachePaths |-> IF d = <<>> THEN 1 ELSE 0]
    /\ lpc = [c \in Callers |-> "idle"]
    /\ lpath = [c \in Callers |-> <<>>]
    /\ lfiles = [c \in Callers |-> 0]
    /\ lret = [c \in Callers |-> NoReturnYet]
    /\ SessionIdle /\ EngineIdle /\ CollectIdle /\ OtherIdle /\ tasks = <<>>

SpecRemoveDir == SpecRemoveDirInit /\ [][RemoveDirNext]_vars

SpecCopyInit ==
    /\ CopyInit /\ PathIdle /\ RemoveIdle /\ GlobIdle /\ CompletionIdle /\ EnsureIdle
    /\ DirsIdle /\ ArgsIdle /\ LockIdle /\ ProgressIdle
    /\ EngineIdle /\ CollectIdle /\ CacheIdle /\ SessionIdle /\ tasks = <<>>

SpecCopy == SpecCopyInit /\ [][CopyNext]_vars

=============================================================================
